---- MODULE Spec2Model ----
(***************************************************************************)
(* Verification model of mongoengine-migrate: the migrations graph         *)
(* (graph.py), the action chain builder (actions/factory.py), the field    *)
(* parameter handlers and type conversion (fields/base.py and              *)
(* fields/registry.py) and the DropField action (tests/action).            *)
(***************************************************************************)
EXTENDS Integers, Sequences, FiniteSets, TLC

VARIABLES
    migrations,   \* MigrationsGraph._migrations: the Migration objects, in dict order
    parents,      \* MigrationsGraph._parents: name -> list of Migration objects
    children,     \* MigrationsGraph._children: name -> list of Migration objects
    calls,        \* number of add() calls made on the graph so far
    yielded,      \* Migration objects yielded by the last traversal, in order
    stack,        \* the walk_down / walk_up calls of a traversal in progress
    node_counters, \* the _node_counters dict of a traversal in progress
    collection,   \* the MongoDB collection: document id -> document
    before,       \* the collection as it was when the last operation started
    prepared,     \* the context prepare() left in the DropField action
    db_field,     \* CommonFieldType.db_field of the field handler
    action_chain, \* the list build_actions_chain returned, if it returned
    ran,          \* the converter calls convert_type made, in order
    op,           \* the operation that ran last
    arg,          \* the arguments of the operation that ran last
    raised,       \* exception class the last operation raised, or "none"
    reason,       \* which raise statement of the last operation fired, or "none"
    type_key_registry, \* fields/registry.py: type key -> TypeKeyRegistryItem
    other         \* a second MigrationsGraph, the right operand of ==

walkVars == <<stack, node_counters>>

graphVars == <<migrations, parents, children, calls, yielded, stack, node_counters>>

storeVars == <<collection, before, prepared, db_field>>

vars == <<migrations, parents, children, calls, yielded, stack, node_counters,
          collection, before, prepared, db_field, action_chain, ran, op, arg,
          raised, reason, type_key_registry, other>>

(***************************************************************************)
(* Bounds                                                                  *)
(***************************************************************************)
MaxAdds == 4

\* a MigrationsGraph as __init__ leaves it
NoGraph == [migrations |-> << >>, parents |-> << >>, children |-> << >>]

\* the context of an action that prepare() has not filled
NotPrepared == [ok |-> FALSE]

(***************************************************************************)
(* fields/registry.py: the type key registry                               *)
(***************************************************************************)
\* Python values handed to the registry functions: a class object and a str
PyClass(n) == [type |-> "class", name |-> n]

PyStr(n) == [type |-> "str", name |-> n]

\* the classes of mongoengine.fields derived from BaseField, which the
\* module registers when it is imported
MongoengineFields ==
    {"BaseField", "StringField", "URLField", "EmailField", "IntField", "LongField",
     "FloatField", "DecimalField", "BooleanField", "DateTimeField", "DateField",
     "ComplexDateTimeField", "EmbeddedDocumentField", "DynamicField",
     "ComplexBaseField", "ListField", "EmbeddedDocumentListField",
     "SortedListField", "DictField", "MapField", "ReferenceField",
     "LazyReferenceField", "CachedReferenceField", "GenericReferenceField",
     "ObjectIdField", "BinaryField", "SequenceField", "UUIDField", "FileField",
     "ImageField"}

\* field classes a user of the library defines and registers
UserFields == {"UserURLField", "UserField"}

\* TypeKeyRegistryItem(field_cls, field_handler_cls), a NamedTuple
TypeKeyRegistryItem(field_cls, field_handler_cls) ==
    [field_cls |-> field_cls, field_handler_cls |-> field_handler_cls]

\* add_type_key(field_cls): the registry afterwards; the assert is on a
\* non-empty tuple and never fails
add_type_key(registry, field_cls) ==
    [k \in DOMAIN registry \cup {field_cls.name} |->
        IF k = field_cls.name THEN TypeKeyRegistryItem(field_cls, "None")
        ELSE registry[k]]

\* the registry once fields/registry.py is imported
ImportedRegistry ==
    [k \in MongoengineFields |-> TypeKeyRegistryItem(PyClass(k), "None")]

\* key in type_key_registry: the keys are str, and no class equals a str
InRegistry(key, registry) == key.type = "str" /\ key.name \in DOMAIN registry

\* add_field_handler(field_cls, handler_cls): the registry afterwards and
\* the exception raised. The loop variables take the names of the
\* parameters, so the test of the loop is on the item alone and is true of
\* every item; assigning to an attribute of a NamedTuple raises
\* AttributeError, at the first item.
add_field_handler(registry, field_cls, handler_cls) ==
    IF ~InRegistry(field_cls, registry)
    THEN [registry |-> registry, raised |-> "ValueError", reason |-> "not_in_registry"]
    ELSE LET field_name == CHOOSE k \in DOMAIN registry : TRUE
             item == registry[field_name]
         IN  IF item.field_handler_cls = "None" \/ item.field_cls = item.field_cls
             THEN [registry |-> registry, raised |-> "AttributeError",
                   reason |-> "cant_set_attribute"]
             ELSE [registry |-> registry, raised |-> "none", reason |-> "none"]

\* the handler classes offered to add_field_handler
HandlerClasses == {"CommonFieldHandler", "StringFieldHandler", "URLFieldHandler"}

(***************************************************************************)
(* Helpers on sequences                                                    *)
(***************************************************************************)
Range(s) == {s[i] : i \in 1..Len(s)}

NamesOf(s) == {s[i].name : i \in 1..Len(s)}

IndexOfName(s, n) == CHOOSE i \in 1..Len(s) : s[i].name = n

(***************************************************************************)
(* graph.py: Migration objects                                             *)
(***************************************************************************)
Migration(n, deps) == [name |-> n, dependencies |-> deps, applied |-> FALSE]

\* The migrations offered to add(): a source, a diamond a -> {b, c} -> d,
\* a chain variant of c, a variant of b that closes the cycle b <-> c below
\* a, a second source, a back edge d -> a and a self dependency.
MigrationPool ==
    { Migration("a", <<>>),
      Migration("b", <<"a">>),
      Migration("c", <<"a">>),
      Migration("d", <<"b", "c">>),
      Migration("c", <<"b">>),
      Migration("b", <<"a", "c">>),
      Migration("d", <<>>),
      Migration("a", <<"d">>),
      Migration("d", <<"d">>) }

(***************************************************************************)
(* graph.py: MigrationsGraph                                               *)
(***************************************************************************)
\* dict get on _migrations
MigrationByName(migs, n) == migs[IndexOfName(migs, n)]

\* property initial: first name of _parents without parents, or None
initial(migs, par) ==
    LET hits == {i \in 1..Len(migs) : par[migs[i].name] = <<>>}
    IN  IF hits = {} THEN "None"
        ELSE migs[CHOOSE i \in hits : \A j \in hits : i <= j].name

\* property last: first name of _children without children, or None
last(migs, chi) ==
    LET hits == {i \in 1..Len(migs) : chi[migs[i].name] = <<>>}
    IN  IF hits = {} THEN "None"
        ELSE migs[CHOOSE i \in hits : \A j \in hits : i <= j].name

\* one iteration of the loop of add() over the partner migs[i]
add_partner(g, partner, m) ==
    IF partner.name = m.name THEN g
    ELSE
    LET p1 == IF partner.name \in Range(m.dependencies)
              THEN [g.parents EXCEPT ![m.name] = Append(@, partner)]
              ELSE g.parents
        c1 == IF partner.name \in Range(m.dependencies)
              THEN [g.children EXCEPT ![partner.name] = Append(@, m)]
              ELSE g.children
        c2 == IF m.name \in Range(partner.dependencies)
              THEN [c1 EXCEPT ![m.name] = Append(@, partner)]
              ELSE c1
        p2 == IF m.name \in Range(partner.dependencies)
              THEN [p1 EXCEPT ![partner.name] = Append(@, m)]
              ELSE p1
    IN  [parents |-> p2, children |-> c2]

RECURSIVE add_loop(_, _, _, _)
add_loop(g, migs, i, m) ==
    IF i > Len(migs) THEN g
    ELSE add_loop(add_partner(g, migs[i], m), migs, i + 1, m)

\* add(): the adjacency and the migrations dict after adding m
add(migs, par, chi, m) ==
    LET keys == NamesOf(migs) \cup {m.name}
        par0 == [n \in keys |-> IF n = m.name THEN <<>> ELSE par[n]]
        chi0 == [n \in keys |-> IF n = m.name THEN <<>> ELSE chi[n]]
        g    == add_loop([parents |-> par0, children |-> chi0], migs, 1, m)
        migs1 == IF m.name \in NamesOf(migs)
                 THEN [migs EXCEPT ![IndexOfName(migs, m.name)] = m]
                 ELSE Append(migs, m)
    IN  [migrations |-> migs1, parents |-> g.parents, children |-> g.children]

\* first_counter without its "or 1": a node without parents starts at 0
first_counter_no_default(adj, n) == Len(adj[n])

\* the counter of a node on its first visit: len(adjacent) or 1
first_counter(adj, n) == IF Len(adj[n]) = 0 THEN 1 ELSE Len(adj[n])

\* _node_counters.setdefault(name, first); _node_counters[name] -= 1
decrement(counters, n, first) ==
    [k \in DOMAIN counters \cup {n} |->
        IF k = n
        THEN (IF n \in DOMAIN counters THEN counters[n] ELSE first) - 1
        ELSE counters[k]]

\* the state a traversal threads through its recursion: the shared
\* _node_counters, the objects yielded so far and whether it has raised
WalkStart == [counters |-> << >>, out |-> << >>, err |-> FALSE]

RECURSIVE walk_down(_, _, _, _, _)
RECURSIVE walk_down_children(_, _, _, _, _, _)

\* walk_down that does not descend below a migration it filters out
walk_down_pruning(par, chi, from_node, unapplied_only, st) ==
    LET n   == from_node.name
        cnt == decrement(st.counters, n, first_counter(par, n))
        st1 == [st EXCEPT !.counters = cnt]
    IN  IF cnt[n] > 0 THEN st1
        ELSE IF cnt[n] < 0 THEN [st1 EXCEPT !.err = TRUE]
        ELSE IF from_node.applied /\ unapplied_only THEN st1
        ELSE walk_down_children(par, chi, chi[n], 1, unapplied_only,
                                [st1 EXCEPT !.out = Append(@, from_node)])

\* walk_down(from_node, unapplied_only, _node_counters), run to exhaustion
walk_down(par, chi, from_node, unapplied_only, st) ==
    LET n   == from_node.name
        cnt == decrement(st.counters, n, first_counter(par, n))
        st1 == [st EXCEPT !.counters = cnt]
    IN  IF cnt[n] > 0 THEN st1
        ELSE IF cnt[n] < 0 THEN [st1 EXCEPT !.err = TRUE]
        ELSE walk_down_children(par, chi, chi[n], 1, unapplied_only,
                IF ~(from_node.applied /\ unapplied_only)
                THEN [st1 EXCEPT !.out = Append(@, from_node)]
                ELSE st1)

\* for child in self._children[from_node.name]: yield from self.walk_down(...)
walk_down_children(par, chi, list, i, unapplied_only, st) ==
    IF i > Len(list) \/ st.err THEN st
    ELSE walk_down_children(par, chi, list, i + 1, unapplied_only,
            walk_down(par, chi, list[i], unapplied_only, st))

RECURSIVE walk_up(_, _, _, _, _)
RECURSIVE walk_up_parents(_, _, _, _, _, _)

\* walk_up(from_node, applied_only, _node_counters), run to exhaustion
walk_up(par, chi, from_node, applied_only, st) ==
    LET n   == from_node.name
        cnt == decrement(st.counters, n, first_counter(chi, n))
        st1 == [st EXCEPT !.counters = cnt]
    IN  IF cnt[n] > 0 THEN st1
        ELSE IF cnt[n] < 0 THEN [st1 EXCEPT !.err = TRUE]
        ELSE walk_up_parents(par, chi, par[n], 1, applied_only,
                IF from_node.applied \/ ~applied_only
                THEN [st1 EXCEPT !.out = Append(@, from_node)]
                ELSE st1)

\* for child in self._parents[from_node.name]: yield from self.walk_up(...)
walk_up_parents(par, chi, list, i, applied_only, st) ==
    IF i > Len(list) \/ st.err THEN st
    ELSE walk_up_parents(par, chi, list, i + 1, applied_only,
            walk_up(par, chi, list[i], applied_only, st))

\* __iter__: iter(self.walk_down(self.initial, unapplied_only=False))
iter(migs, par, chi) ==
    IF initial(migs, par) = "None" THEN WalkStart
    ELSE walk_down(par, chi, MigrationByName(migs, initial(migs, par)), FALSE, WalkStart)

\* __reversed__: iter(self.walk_up(self.last, applied_only=False))
reversed(migs, par, chi) ==
    IF last(migs, chi) = "None" THEN WalkStart
    ELSE walk_up(par, chi, MigrationByName(migs, last(migs, chi)), FALSE, WalkStart)

\* the two raise statements inside the loop of verify(), for the item migs[i]
verify_item(migs, par, chi, i) ==
    LET name == migs[i].name
    IN  IF Len(migs[i].dependencies) > Len(par[name]) THEN "unknown_dependencies"
        ELSE IF name \in NamesOf(chi[name]) THEN "dependent_on_itself"
        ELSE "none"

\* verify() without its final check for a missing initial or last migration
verify_no_empty_check(migs, par, chi) ==
    LET bad       == {i \in 1..Len(migs) : verify_item(migs, par, chi, i) # "none"}
        initials  == {i \in 1..Len(migs) : par[migs[i].name] = <<>>}
        last_children == {i \in 1..Len(migs) : chi[migs[i].name] = <<>>}
    IN  IF bad # {}
        THEN verify_item(migs, par, chi, CHOOSE i \in bad : \A j \in bad : i <= j)
        ELSE IF Cardinality(initials) = Cardinality(last_children)
                /\ Cardinality(initials) > 1
        THEN "disconnected"
        ELSE IF Cardinality(initials) > 1 THEN "several_initial"
        ELSE IF Cardinality(last_children) > 1 THEN "several_last"
        ELSE "none"

\* verify(): the raise statement that fires, or "none" when it returns
verify(migs, par, chi) ==
    LET bad       == {i \in 1..Len(migs) : verify_item(migs, par, chi, i) # "none"}
        initials  == {i \in 1..Len(migs) : par[migs[i].name] = <<>>}
        last_children == {i \in 1..Len(migs) : chi[migs[i].name] = <<>>}
    IN  IF bad # {}
        THEN verify_item(migs, par, chi, CHOOSE i \in bad : \A j \in bad : i <= j)
        ELSE IF Cardinality(initials) = Cardinality(last_children)
                /\ Cardinality(initials) > 1
        THEN "disconnected"
        ELSE IF Cardinality(initials) > 1 THEN "several_initial"
        ELSE IF Cardinality(last_children) > 1 THEN "several_last"
        ELSE IF initials = {} \/ last_children = {} THEN "no_initial_or_last"
        ELSE "none"

(***************************************************************************)
(* Operations on the graph                                                 *)
(***************************************************************************)
InitGraph ==
    /\ migrations = << >>
    /\ parents = << >>
    /\ children = << >>
    /\ calls = 0
    /\ yielded = << >>
    /\ stack = << >>
    /\ node_counters = << >>
    /\ collection = << >>
    /\ before = << >>
    /\ prepared = NotPrepared
    /\ db_field = "none"
    /\ action_chain = << >>
    /\ ran = << >>
    /\ op = "init"
    /\ arg = "none"
    /\ raised = "none"
    /\ reason = "none"
    /\ type_key_registry = ImportedRegistry
    /\ other = NoGraph

Add ==
    \E m \in MigrationPool :
        /\ calls < MaxAdds
        /\ LET g == add(migrations, parents, children, m)
           IN  /\ migrations' = g.migrations
               /\ parents' = g.parents
               /\ children' = g.children
        /\ calls' = calls + 1
        /\ op' = "add"
        /\ yielded' = << >>
        /\ raised' = "none"
        /\ reason' = "none"
        /\ UNCHANGED <<storeVars, walkVars, action_chain, ran, arg,
                   type_key_registry, other>>

Iter ==
    LET r == iter(migrations, parents, children)
    IN  /\ op' = "iter"
        /\ yielded' = r.out
        /\ raised' = IF r.err THEN "MigrationError" ELSE "none"
        /\ reason' = IF r.err THEN "closed_cycle" ELSE "none"
        /\ UNCHANGED <<migrations, parents, children, calls,
                   type_key_registry, other>>
        /\ UNCHANGED <<storeVars, walkVars, action_chain, ran, arg,
                   type_key_registry, other>>

Reversed ==
    LET r == reversed(migrations, parents, children)
    IN  /\ op' = "reversed"
        /\ yielded' = r.out
        /\ raised' = IF r.err THEN "MigrationError" ELSE "none"
        /\ reason' = IF r.err THEN "closed_cycle" ELSE "none"
        /\ UNCHANGED <<migrations, parents, children, calls,
                   type_key_registry, other>>
        /\ UNCHANGED <<storeVars, walkVars, action_chain, ran, arg,
                   type_key_registry, other>>

Verify ==
    LET r == verify(migrations, parents, children)
    IN  /\ op' = "verify"
        /\ yielded' = << >>
        /\ raised' = IF r # "none" THEN "MigrationError" ELSE "none"
        /\ reason' = r
        /\ UNCHANGED <<migrations, parents, children, calls,
                   type_key_registry, other>>
        /\ UNCHANGED <<storeVars, walkVars, action_chain, ran, arg,
                   type_key_registry, other>>

Next == Add \/ Iter \/ Reversed \/ Verify

Spec == InitGraph /\ [][Next]_vars

(***************************************************************************)
(* Graph vocabulary of the claims                                          *)
(***************************************************************************)
GraphNames == NamesOf(migrations)

\* every add() call so far brought a new name
DistinctNames == calls = Len(migrations)

Sources == {n \in GraphNames : parents[n] = << >>}

Sinks == {n \in GraphNames : children[n] = << >>}

\* <<p, c>>: the adjacency lists hold p as a parent of c or c as a child of p
AdjacencyEdges ==
    {e \in GraphNames \X GraphNames :
        e[1] \in NamesOf(parents[e[2]]) \/ e[2] \in NamesOf(children[e[1]])}

\* <<p, c>>: the migration c of the graph names p in its dependencies
DeclaredEdges ==
    {e \in GraphNames \X GraphNames :
        e[1] \in Range(MigrationByName(migrations, e[2]).dependencies)}

\* the declared edges between two different migrations
ProperEdges == {e \in DeclaredEdges : e[1] # e[2]}

RECURSIVE ReachFrom(_, _)
ReachFrom(S, R) ==
    LET T == S \cup {e[2] : e \in {x \in R : x[1] \in S}}
    IN  IF T = S THEN S ELSE ReachFrom(T, R)

\* the nodes reached from n over one edge or more
Below(n, R) == ReachFrom({e[2] : e \in {x \in R : x[1] = n}}, R)

OnCycle(n, R) == n \in Below(n, R)

Acyclic(R) == \A n \in GraphNames : ~OnCycle(n, R)

SingleSourceSinkDag(R) ==
    /\ Cardinality(Sources) = 1
    /\ Cardinality(Sinks) = 1
    /\ Acyclic(R)

YieldedEachOnce ==
    /\ Len(yielded) = Len(migrations)
    /\ NamesOf(yielded) = GraphNames
    /\ Range(yielded) = Range(migrations)

YieldedBefore(n, i) == \E j \in 1..(i - 1) : yielded[j].name = n

DependenciesFirst ==
    \A i \in 1..Len(yielded) :
        \A d \in Range(yielded[i].dependencies) \cap GraphNames : YieldedBefore(d, i)

DependentsFirst ==
    \A i \in 1..Len(yielded) :
        /\ \A c \in NamesOf(children[yielded[i].name]) : YieldedBefore(c, i)
        /\ \A c \in GraphNames :
              <<yielded[i].name, c>> \in ProperEdges => YieldedBefore(c, i)

(***************************************************************************)
(* Claims on the migrations graph                                          *)
(***************************************************************************)
\* C1: on a graph built by add() from migrations with pairwise distinct
\* names, with one source, one sink and no directed cycle, iterating
\* walk_down(initial, unapplied_only=False) raises nothing, yields every
\* migration exactly once and yields each one only after all the migrations
\* of the graph that its dependencies name.
C1_WalkDownTopological ==
    (op = "iter" /\ DistinctNames /\ SingleSourceSinkDag(DeclaredEdges))
        => (raised = "none" /\ YieldedEachOnce /\ DependenciesFirst)

\* a diamond was walked: four migrations, one of them with two parents
C1_Witness ==
    /\ op = "iter" /\ DistinctNames /\ SingleSourceSinkDag(DeclaredEdges)
    /\ Len(migrations) = 4
    /\ \E n \in GraphNames : Len(parents[n]) = 2
    /\ Len(yielded) = 4

\* C2: on every graph with one source, one sink and no directed cycle,
\* walk_up(last, applied_only=False) raises nothing, yields every migration
\* exactly once, each only after all migrations that depend on it, and the
\* set it yields is the set walk_down(initial, unapplied_only=False) yields.
C2_WalkUpDependentsFirst ==
    (op = "reversed" /\ SingleSourceSinkDag(AdjacencyEdges))
        => /\ raised = "none"
           /\ YieldedEachOnce
           /\ DependentsFirst
           /\ NamesOf(yielded) = NamesOf(iter(migrations, parents, children).out)

\* C3: when a directed dependency cycle through two or more migrations is
\* reachable from the initial migration, walk_down started at the initial
\* migration raises the closed-cycle MigrationError (stated for graphs built
\* from pairwise distinct names, where the adjacency is the declared one).
C3_ReachableCycleRaises ==
    (/\ op = "iter"
     /\ DistinctNames
     /\ initial(migrations, parents) # "None"
     /\ \E n \in Below(initial(migrations, parents), ProperEdges) :
            OnCycle(n, ProperEdges))
        => (raised = "MigrationError" /\ reason = "closed_cycle")

NumDocs == 2

DocIds == 1..NumDocs

FieldNames == {"f", "g"}

Values == {"x", "y"}

\* the field part of a document: some of the fields, each with a value
FieldMaps == UNION {[S -> Values] : S \in SUBSET FieldNames}

\* a document: its top level fields and the embedded documents it holds
Document(fields, emb) == [fields |-> fields, emb |-> emb]

\* m with the field f set to v (MongoDB $set)
SetField(m, f, v) == [k \in DOMAIN m \cup {f} |-> IF k = f THEN v ELSE m[k]]

\* m without the field f (MongoDB $unset)
UnsetField(m, f) == [k \in DOMAIN m \ {f} |-> m[k]]

\* update_many({f: {'$exists': False}}, {'$set': {f: v}})
update_many_set_missing(coll, f, v) ==
    [id \in DOMAIN coll |->
        IF f \notin DOMAIN coll[id].fields
        THEN [coll[id] EXCEPT !.fields = SetField(@, f, v)]
        ELSE coll[id]]

(***************************************************************************)
(* fields/base.py: AlterDiff values and CommonFieldType handlers           *)
(***************************************************************************)
\* Python values a diff carries: the booleans, None, the UNSET sentinel and
\* a string
PyBools == {"True", "False"}

PyValues == PyBools \cup {"None", "UNSET", "str"}

\* the strings a diff carries: a word, the empty string, field names and
\* type keys
PyStrings ==
    {"str", "", "f", "g", "StringField", "SequenceField", "EmbeddedDocumentListField"}

\* the lists a diff carries: the empty list, lists of values and a list of
\* (value, label) pairs
PyLists == {"[]", "['x']", "['x','y']", "[('x','X')]"}

\* isinstance(v, check_type) for bool, str and typing.Collection; a str is a
\* Collection
isinstance(v, check_type) ==
    CASE check_type = "bool" -> v \in PyBools
      [] check_type = "str"  -> v \in PyStrings
      [] check_type = "Collection" -> v \in PyStrings \cup PyLists
      [] OTHER -> FALSE

AlterDiff(old, new, default, error_policy) ==
    [old |-> old, new |-> new, default |-> default, error_policy |-> error_policy]

\* _check_diff() without the check of the values' type
_check_diff_untyped(diff, can_be_unset, can_be_none, check_type) ==
    IF diff.new = diff.old THEN "equal_old_and_new"
    ELSE IF ~can_be_unset /\ (diff.new = "UNSET" \/ diff.old = "UNSET")
    THEN "cannot_be_unset"
    ELSE IF ~can_be_none /\ (diff.old = "None" \/ diff.new = "None")
    THEN "cannot_be_none"
    ELSE "none"

\* _check_diff(): the raise statement that fires, or "none"
_check_diff(diff, can_be_unset, can_be_none, check_type) ==
    IF diff.new = diff.old THEN "equal_old_and_new"
    ELSE IF ~can_be_unset /\ (diff.new = "UNSET" \/ diff.old = "UNSET")
    THEN "cannot_be_unset"
    ELSE IF check_type # "None"
            /\ (\/ diff.old \notin {"UNSET", "None"} /\ ~isinstance(diff.old, check_type)
                \/ diff.new \notin {"UNSET", "None"} /\ ~isinstance(diff.new, check_type))
    THEN "wrong_type"
    ELSE IF ~can_be_none /\ (diff.old = "None" \/ diff.new = "None")
    THEN "cannot_be_none"
    ELSE "none"

HandlerResult(coll, exc, why) == [collection |-> coll, raised |-> exc, reason |-> why]

\* change_required that backfills the default into every document
change_required_overwrite(coll, dbf, diff) ==
    LET chk == _check_diff(diff, FALSE, FALSE, "bool")
    IN  IF chk # "none" THEN HandlerResult(coll, "MigrationError", chk)
        ELSE IF diff.old # "True" /\ diff.new = "True"
        THEN IF diff.default = "None"
             THEN HandlerResult(coll, "MigrationError", "default_not_set")
             ELSE HandlerResult(
                    [id \in DOMAIN coll |->
                        [coll[id] EXCEPT !.fields = SetField(@, dbf, diff.default)]],
                    "none", "none")
        ELSE HandlerResult(coll, "none", "none")

\* change_required(diff) of a handler whose db_field is dbf
change_required(coll, dbf, diff) ==
    LET chk == _check_diff(diff, FALSE, FALSE, "bool")
    IN  IF chk # "none" THEN HandlerResult(coll, "MigrationError", chk)
        ELSE IF diff.old # "True" /\ diff.new = "True"
        THEN IF diff.default = "None"
             THEN HandlerResult(coll, "MigrationError", "default_not_set")
             ELSE HandlerResult(update_many_set_missing(coll, dbf, diff.default),
                                "none", "none")
        ELSE HandlerResult(coll, "none", "none")

\* the diffs offered to change_required
RequiredDiffs ==
    {AlterDiff(o, n, d, "raise") : o \in PyValues, n \in PyValues,
                                   d \in {"None"} \cup Values}

(***************************************************************************)
(* Operations of a field handler on its collection                         *)
(***************************************************************************)
\* CommonFieldType(collection, field_schema) over a collection of
\* documents without embedded documents
InitField ==
    /\ collection \in [DocIds -> {Document(m, << >>) : m \in FieldMaps}]
    /\ before = collection
    /\ db_field \in FieldNames
    /\ prepared = NotPrepared
    /\ migrations = << >>
    /\ parents = << >>
    /\ children = << >>
    /\ calls = 0
    /\ yielded = << >>
    /\ stack = << >>
    /\ node_counters = << >>
    /\ action_chain = << >>
    /\ ran = << >>
    /\ op = "init"
    /\ arg = "none"
    /\ raised = "none"
    /\ reason = "none"
    /\ type_key_registry = ImportedRegistry
    /\ other = NoGraph

ChangeRequired ==
    \E diff \in RequiredDiffs :
        LET r == change_required(collection, db_field, diff)
        IN  /\ collection' = r.collection
            /\ before' = collection
            /\ op' = "change_required"
            /\ arg' = diff
            /\ raised' = r.raised
            /\ reason' = r.reason
            /\ UNCHANGED <<graphVars, prepared, db_field, action_chain, ran,
                   type_key_registry, other>>

NextField == ChangeRequired

SpecField == InitField /\ [][NextField]_vars

(***************************************************************************)
(* Claims on the field handlers                                            *)
(***************************************************************************)
\* C6: change_required with a diff from not required to required and a
\* default d sets the field to d on exactly the documents that lack it and
\* leaves the documents that have it unchanged; with a diff from required to
\* not required it modifies nothing.
C6_ChangeRequiredBackfill ==
    /\ (op = "change_required" /\ arg.old = "False" /\ arg.new = "True"
            /\ arg.default # "None")
        => /\ raised = "none"
           /\ \A id \in DocIds :
                IF db_field \in DOMAIN before[id].fields
                THEN collection[id] = before[id]
                ELSE /\ collection[id].fields = SetField(before[id].fields, db_field, arg.default)
                     /\ collection[id].emb = before[id].emb
    /\ (op = "change_required" /\ arg.old = "True" /\ arg.new = "False")
        => (raised = "none" /\ collection = before)

\* a backfill ran on a collection where one document lacked the field and
\* another held a value other than the default
C6_Witness ==
    /\ op = "change_required" /\ arg.old = "False" /\ arg.new = "True"
    /\ arg.default = "x"
    /\ \E i, j \in DocIds :
        /\ db_field \notin DOMAIN before[i].fields
        /\ collection[i].fields[db_field] = "x"
        /\ db_field \in DOMAIN before[j].fields
        /\ collection[j].fields[db_field] = "y"

(***************************************************************************)
(* Schemas: document type -> field -> field descriptor                     *)
(***************************************************************************)
\* document types; a name that starts with the embedded prefix "~" is an
\* embedded document type, any other name is a collection
DocTypes == {"~Emb", "Doc"}

EmbeddedTypes == {"~Emb"}

\* the keys of a field descriptor that the operations read
Descriptor(dbf, required, default) ==
    [db_field |-> dbf, required |-> required, default |-> default]

\* the schema with the document types T, each with the fields F, every
\* field with the same required flag and default
UniformSchema(T, F, required, default) ==
    [t \in T |-> [f \in F |-> Descriptor(f, required, default)]]

(***************************************************************************)
(* DropField, as tests/action/test_drop_field.py uses it                   *)
(***************************************************************************)
\* the documents of the collection "Doc": the field f is absent or holds
\* "y", the field g is absent or holds "x", and a document may embed one
\* document of type "~Emb"
DropDocuments ==
    {Document(m, e) :
        m \in {k \in FieldMaps : /\ ("f" \in DOMAIN k => k["f"] = "y")
                                 /\ ("g" \in DOMAIN k => k["g"] = "x")},
        e \in {<< >>} \cup
              {<<k>> : k \in {k \in FieldMaps : /\ ("f" \in DOMAIN k => k["f"] = "y")
                                                /\ "g" \in DOMAIN k
                                                /\ k["g"] = "x"}}}

\* the schemas handed to prepare()
DropSchemas ==
    {UniformSchema(T, F, r, d) :
        T \in {DocTypes, {"Doc"}, {"~Emb"}},
        F \in {FieldNames, {"g"}},
        r \in BOOLEAN,
        d \in {"None", "x"}}

\* prepare that accepts a field the document type does not have
prepare_lenient(schema, document_type, field_name) ==
    IF document_type \notin DOMAIN schema
    THEN [raised |-> "SchemaError", reason |-> "document_not_in_schema",
          prepared |-> NotPrepared]
    ELSE [raised |-> "none", reason |-> "none",
          prepared |-> [ok |-> TRUE,
                        document_type |-> document_type,
                        field_name |-> field_name,
                        left_field_schema |-> Descriptor(field_name, FALSE, "None")]]

\* prepare(db, left_schema, policy): the raise that fires, or "none", and
\* the context the action keeps for its run
prepare(schema, document_type, field_name) ==
    IF document_type \notin DOMAIN schema
    THEN [raised |-> "SchemaError", reason |-> "document_not_in_schema",
          prepared |-> NotPrepared]
    ELSE IF field_name \notin DOMAIN schema[document_type]
    THEN [raised |-> "SchemaError", reason |-> "field_not_in_schema",
          prepared |-> NotPrepared]
    ELSE [raised |-> "none", reason |-> "none",
          prepared |-> [ok |-> TRUE,
                        document_type |-> document_type,
                        field_name |-> field_name,
                        left_field_schema |-> schema[document_type][field_name]]]

\* the field map m after the update: "unset" removes the field, "set"
\* writes v, "set_missing" writes v where the field is missing
updated(m, update, dbf, v) ==
    CASE update = "unset" -> UnsetField(m, dbf)
      [] update = "set" -> SetField(m, dbf, v)
      [] OTHER -> IF dbf \in DOMAIN m THEN m ELSE SetField(m, dbf, v)

\* apply the update to every document of the type: to the top level
\* fields of a collection, to every embedded document of an embedded type
update_occurrences(coll, document_type, update, dbf, v) ==
    [id \in DOMAIN coll |->
        IF document_type \in EmbeddedTypes
        THEN [coll[id] EXCEPT !.emb = [k \in DOMAIN @ |-> updated(@[k], update, dbf, v)]]
        ELSE [coll[id] EXCEPT !.fields = updated(@, update, dbf, v)]]

\* run_forward that always works on the top level fields
run_forward_top_level(coll, ctx) ==
    update_occurrences(coll, "Doc", "unset", ctx.left_field_schema.db_field, "None")

\* DropField.run_forward(): unset the field wherever it exists
run_forward(coll, ctx) ==
    update_occurrences(coll, ctx.document_type, "unset",
                       ctx.left_field_schema.db_field, "None")

\* run_backward that sets the default without looking at what is stored
run_backward_overwrite(coll, ctx) ==
    LET d == ctx.left_field_schema
    IN  IF d.required /\ d.default # "None"
        THEN update_occurrences(coll, ctx.document_type, "set", d.db_field, d.default)
        ELSE coll

\* DropField.run_backward(): restore a required field with its default
\* where it is missing
run_backward(coll, ctx) ==
    LET d == ctx.left_field_schema
    IN  IF d.required /\ d.default # "None"
        THEN update_occurrences(coll, ctx.document_type, "set_missing",
                                d.db_field, d.default)
        ELSE coll

InitDrop ==
    /\ collection \in [DocIds -> DropDocuments]
    /\ before = collection
    /\ db_field = "none"
    /\ prepared = NotPrepared
    /\ migrations = << >>
    /\ parents = << >>
    /\ children = << >>
    /\ calls = 0
    /\ yielded = << >>
    /\ stack = << >>
    /\ node_counters = << >>
    /\ action_chain = << >>
    /\ ran = << >>
    /\ op = "init"
    /\ arg = "none"
    /\ raised = "none"
    /\ reason = "none"
    /\ type_key_registry = ImportedRegistry
    /\ other = NoGraph

\* action = DropField(document_type, 'f'); action.prepare(db, schema, policy)
Prepare ==
    \E schema \in DropSchemas, document_type \in DocTypes :
        LET r == prepare(schema, document_type, "f")
        IN  /\ op = "init"
            /\ prepared' = r.prepared
            /\ before' = collection
            /\ op' = "prepare"
            /\ arg' = [schema |-> schema, document_type |-> document_type,
                       field_name |-> "f"]
            /\ raised' = r.raised
            /\ reason' = r.reason
            /\ UNCHANGED <<graphVars, collection, db_field, action_chain, ran,
                   type_key_registry, other>>

RunForward ==
    /\ op = "prepare"
    /\ prepared.ok
    /\ collection' = run_forward(collection, prepared)
    /\ before' = collection
    /\ op' = "run_forward"
    /\ raised' = "none"
    /\ reason' = "none"
    /\ UNCHANGED <<graphVars, prepared, db_field, action_chain, ran, arg,
                   type_key_registry, other>>

RunBackward ==
    /\ op = "prepare"
    /\ prepared.ok
    /\ collection' = run_backward(collection, prepared)
    /\ before' = collection
    /\ op' = "run_backward"
    /\ raised' = "none"
    /\ reason' = "none"
    /\ UNCHANGED <<graphVars, prepared, db_field, action_chain, ran, arg,
                   type_key_registry, other>>

NextDrop == Prepare \/ RunForward \/ RunBackward

SpecDrop == InitDrop /\ [][NextDrop]_vars

(***************************************************************************)
(* Claims on DropField                                                     *)
(***************************************************************************)
\* the documents of the prepared type held by the document d, in order
Occurrences(d) ==
    IF prepared.document_type \in EmbeddedTypes THEN d.emb ELSE <<d.fields>>

\* the rest of the document d: what is not a document of the prepared type
Bystanders(d) ==
    IF prepared.document_type \in EmbeddedTypes THEN <<d.fields>> ELSE d.emb

\* the store name of the field the prepared action drops
DroppedField == prepared.left_field_schema.db_field

\* m and n agree on every field but f
SameButField(m, n, f) ==
    /\ DOMAIN m \ {f} = DOMAIN n \ {f}
    /\ \A k \in DOMAIN m \ {f} : m[k] = n[k]

\* C7: DropField.run_forward removes the field from every document of the
\* collection (for an embedded type: from every embedded document of that
\* type) and leaves every other field of every document unchanged.
C7_ForwardDropsField ==
    op = "run_forward" =>
        \A id \in DocIds :
            /\ Bystanders(collection[id]) = Bystanders(before[id])
            /\ Len(Occurrences(collection[id])) = Len(Occurrences(before[id]))
            /\ \A k \in 1..Len(Occurrences(before[id])) :
                /\ DroppedField \notin DOMAIN Occurrences(collection[id])[k]
                /\ SameButField(Occurrences(collection[id])[k],
                                Occurrences(before[id])[k], DroppedField)

\* the field was dropped from an embedded document that held it, next to a
\* top level field of the same name that stayed
C7_Witness ==
    /\ op = "run_forward"
    /\ prepared.document_type = "~Emb"
    /\ \E id \in DocIds :
        /\ before[id].emb # << >>
        /\ "f" \in DOMAIN before[id].emb[1]
        /\ "f" \notin DOMAIN collection[id].emb[1]
        /\ "g" \in DOMAIN collection[id].emb[1]
        /\ "f" \in DOMAIN collection[id].fields

\* C8: DropField.run_backward leaves the store unchanged when the field's
\* descriptor has no default; when the descriptor is required with a
\* default d it sets the field to d on every document (or embedded
\* document) that lacks it and changes no document that has it.
C8_BackwardRestoresDefault ==
    op = "run_backward" =>
        LET d == prepared.left_field_schema
        IN  /\ d.default = "None" => collection = before
            /\ (d.required /\ d.default # "None") =>
                \A id \in DocIds :
                    /\ Bystanders(collection[id]) = Bystanders(before[id])
                    /\ Len(Occurrences(collection[id])) = Len(Occurrences(before[id]))
                    /\ \A k \in 1..Len(Occurrences(before[id])) :
                        LET old == Occurrences(before[id])[k]
                            new == Occurrences(collection[id])[k]
                        IN  IF DroppedField \in DOMAIN old THEN new = old
                            ELSE new = SetField(old, DroppedField, d.default)

\* a required field with default "x" was restored on a document that
\* lacked it while another document kept its value "y"
C8_Witness ==
    /\ op = "run_backward"
    /\ prepared.document_type = "Doc"
    /\ prepared.left_field_schema.required
    /\ prepared.left_field_schema.default = "x"
    /\ \E i, j \in DocIds :
        /\ "f" \notin DOMAIN before[i].fields
        /\ collection[i].fields["f"] = "x"
        /\ "f" \in DOMAIN before[j].fields
        /\ collection[j].fields["f"] = "y"

\* C9: prepare() of a DropField whose document type is not in the schema,
\* or whose field is not in that document type, raises SchemaError and the
\* store is not modified.
C9_PrepareRejectsUnknown ==
    (/\ op = "prepare"
     /\ \/ arg.document_type \notin DOMAIN arg.schema
        \/ arg.field_name \notin DOMAIN arg.schema[arg.document_type])
        => (raised = "SchemaError" /\ ~prepared.ok /\ collection = before)

\* prepare() met a schema that has the document type but not the field
C9_Witness ==
    /\ op = "prepare"
    /\ arg.document_type \in DOMAIN arg.schema
    /\ arg.field_name \notin DOMAIN arg.schema[arg.document_type]
    /\ raised = "SchemaError"

(***************************************************************************)
(* Action classes of the registry                                          *)
(***************************************************************************)
\* actions_registry: the registered Action classes
ActionClasses ==
    {"CreateDocument", "DropDocument", "CreateField", "DropField", "AlterField",
     "RunPython"}

\* issubclass(action_cls, BaseDocumentAction)
DocumentActionClasses == {"CreateDocument", "DropDocument"}

\* issubclass(action_cls, BaseFieldAction)
FieldActionClasses == {"CreateField", "DropField", "AlterField"}

\* the priority attribute of each Action class
priority ==
    [c \in ActionClasses |->
        CASE c = "CreateDocument" -> 1
          [] c = "CreateField"    -> 2
          [] c = "AlterField"     -> 3
          [] c = "DropField"      -> 4
          [] c = "DropDocument"   -> 5
          [] OTHER                -> 6]

NoDescriptor == Descriptor("", FALSE, "None")

Action(cls, document_type, field_name, params) ==
    [cls |-> cls, document_type |-> document_type, field_name |-> field_name,
     params |-> params]

\* build_object(...) is not None: the class has a change to make
build_object_matches(cls, document_type, field_name, left, right) ==
    LET both == document_type \in DOMAIN left /\ document_type \in DOMAIN right
    IN  CASE cls = "CreateDocument" ->
                document_type \notin DOMAIN left /\ document_type \in DOMAIN right
          [] cls = "DropDocument" ->
                document_type \in DOMAIN left /\ document_type \notin DOMAIN right
          [] cls = "CreateField" ->
                /\ both
                /\ field_name \notin DOMAIN left[document_type]
                /\ field_name \in DOMAIN right[document_type]
          [] cls = "DropField" ->
                /\ both
                /\ field_name \in DOMAIN left[document_type]
                /\ field_name \notin DOMAIN right[document_type]
          [] cls = "AlterField" ->
                /\ both
                /\ field_name \in DOMAIN left[document_type]
                /\ field_name \in DOMAIN right[document_type]
                /\ left[document_type][field_name] # right[document_type][field_name]
          [] OTHER -> FALSE

\* the Action object build_object(...) returns when it matches
build_object(cls, document_type, field_name, left, right) ==
    Action(cls, document_type, field_name,
           CASE cls \in {"CreateField", "AlterField"} -> right[document_type][field_name]
             [] cls = "DropField" -> left[document_type][field_name]
             [] OTHER -> NoDescriptor)

\* patch(action.to_schema_patch(left_schema), left_schema): a new schema
patch(action, schema) ==
    LET dt == action.document_type
        f  == action.field_name
    IN  CASE action.cls = "CreateDocument" ->
                [t \in DOMAIN schema \cup {dt} |-> IF t = dt THEN << >> ELSE schema[t]]
          [] action.cls = "DropDocument" ->
                [t \in DOMAIN schema \ {dt} |-> schema[t]]
          [] action.cls \in {"CreateField", "AlterField"} ->
                [schema EXCEPT ![dt] = SetField(@, f, action.params)]
          [] action.cls = "DropField" ->
                [schema EXCEPT ![dt] = UnsetField(@, f)]
          [] OTHER -> schema

(***************************************************************************)
(* actions/factory.py                                                      *)
(***************************************************************************)
\* the elements of the set S in the order a Python set iterates them: the
\* order ord, which a run fixes, restricted to S
IterateSet(S, ord) ==
    LET idx == {i \in 1..Len(ord) : ord[i] \in S}
        RECURSIVE take(_)
        take(I) == IF I = {} THEN << >>
                   ELSE LET i == CHOOSE i \in I : \A j \in I : i <= j
                        IN  <<ord[i]>> \o take(I \ {i})
    IN  take(idx)

\* the document types of both schemas as the set iterates them
get_all_document_types_unordered(left, right, ord) ==
    IterateSet(DOMAIN left \cup DOMAIN right, ord)

\* get_all_document_types(): embedded document types first
get_all_document_types(left, right, ord) ==
    LET all_document_types == IterateSet(DOMAIN left \cup DOMAIN right, ord)
    IN  SelectSeq(all_document_types, LAMBDA c : c \in EmbeddedTypes)
        \o SelectSeq(all_document_types, LAMBDA c : c \notin EmbeddedTypes)

\* schema.get(document_type, {}).keys()
FieldsOf(schema, document_type) ==
    IF document_type \in DOMAIN schema THEN DOMAIN schema[document_type] ELSE {}

RECURSIVE build_document_action_chain(_, _, _, _, _)
\* build_document_action_chain(), from the i-th document type on
build_document_action_chain(action_cls, left, right, document_types, i) ==
    IF i > Len(document_types) THEN << >>
    ELSE IF build_object_matches(action_cls, document_types[i], "", left, right)
    THEN LET action_obj == build_object(action_cls, document_types[i], "", left, right)
         IN  <<action_obj>> \o
             build_document_action_chain(action_cls, patch(action_obj, left), right,
                                         document_types, i + 1)
    ELSE build_document_action_chain(action_cls, left, right, document_types, i + 1)

RECURSIVE build_field_action_chain(_, _, _, _, _, _, _, _)
\* build_field_action_chain(), from the j-th field of the i-th document
\* type on; all_fields is the field set taken on entering document type i
build_field_action_chain(action_cls, left, right, document_types, i, all_fields, j, ord) ==
    IF i > Len(document_types) THEN << >>
    ELSE IF j > Len(all_fields)
    THEN IF i + 1 > Len(document_types) THEN << >>
         ELSE build_field_action_chain(action_cls, left, right, document_types, i + 1,
                IterateSet(FieldsOf(left, document_types[i + 1])
                           \cup FieldsOf(right, document_types[i + 1]), ord),
                1, ord)
    ELSE IF build_object_matches(action_cls, document_types[i], all_fields[j], left, right)
    THEN LET action_obj == build_object(action_cls, document_types[i], all_fields[j],
                                        left, right)
         IN  <<action_obj>> \o
             build_field_action_chain(action_cls, patch(action_obj, left), right,
                                      document_types, i, all_fields, j + 1, ord)
    ELSE build_field_action_chain(action_cls, left, right, document_types, i,
                                  all_fields, j + 1, ord)

RECURSIVE patch_all(_, _, _)
\* for action in new_actions: left_schema = patch(..., left_schema)
patch_all(new_actions, k, left) ==
    IF k > Len(new_actions) THEN left
    ELSE patch_all(new_actions, k + 1, patch(new_actions[k], left))

RECURSIVE sorted_registry_descending(_)
\* the registry sorted with the highest priority value first
sorted_registry_descending(classes) ==
    IF classes = {} THEN << >>
    ELSE LET c == CHOOSE c \in classes : \A d \in classes : priority[c] >= priority[d]
         IN  <<c>> \o sorted_registry_descending(classes \ {c})

\* list(sorted(actions_registry.values(), key=lambda x: x.priority))
RECURSIVE sorted_registry(_)
sorted_registry(classes) ==
    IF classes = {} THEN << >>
    ELSE LET c == CHOOSE c \in classes : \A d \in classes : priority[c] <= priority[d]
         IN  <<c>> \o sorted_registry(classes \ {c})

RECURSIVE build_passes(_, _, _, _, _, _)
\* the loop of build_actions_chain over the registry, from class k on
build_passes(registry, k, left, right, action_chain_, ord) ==
    IF k > Len(registry) THEN [left_schema |-> left, action_chain |-> action_chain_]
    ELSE
    LET action_cls == registry[k]
        document_types == get_all_document_types(left, right, ord.documents)
        new_actions ==
            IF action_cls \in DocumentActionClasses
            THEN build_document_action_chain(action_cls, left, right, document_types, 1)
            ELSE IF document_types = << >> THEN << >>
            ELSE build_field_action_chain(action_cls, left, right, document_types, 1,
                    IterateSet(FieldsOf(left, document_types[1])
                               \cup FieldsOf(right, document_types[1]), ord.fields),
                    1, ord.fields)
    IN  IF action_cls \notin DocumentActionClasses \cup FieldActionClasses
        THEN build_passes(registry, k + 1, left, right, action_chain_, ord)
        ELSE build_passes(registry, k + 1, patch_all(new_actions, 1, left), right,
                          action_chain_ \o new_actions, ord)

ChainResult(returned, actions, exc) ==
    [returned |-> returned, actions |-> actions, raised |-> exc]

\* build_actions_chain without the final comparison with the right schema
build_actions_chain_unchecked(left_schema, right_schema, classes, ord) ==
    LET r == build_passes(sorted_registry(classes), 1, left_schema, right_schema,
                          << >>, ord)
    IN  ChainResult(TRUE, r.action_chain, "none")

\* build_actions_chain(left_schema, right_schema) with the registered
\* classes and the set iteration orders of the run
build_actions_chain(left_schema, right_schema, classes, ord) ==
    LET r == build_passes(sorted_registry(classes), 1, left_schema, right_schema,
                          << >>, ord)
    IN  IF right_schema # r.left_schema
        THEN ChainResult(FALSE, << >>, "ActionError")
        ELSE ChainResult(TRUE, r.action_chain, "none")

(***************************************************************************)
(* Building action chains                                                  *)
(***************************************************************************)
ChainDescriptors(f) == {Descriptor(f, FALSE, "None"), Descriptor(f, TRUE, "x")}

\* the field maps of a document type of a schema, over the fields F
ChainFieldMaps(F) ==
    UNION {{m \in [S -> UNION {ChainDescriptors(f) : f \in F}] :
                \A f \in S : m[f] \in ChainDescriptors(f)} : S \in SUBSET F}

\* the schemas handed to build_actions_chain: the embedded type with at
\* most the field f, the collection with any of the fields
ChainSchemas ==
    UNION {{s \in [T -> ChainFieldMaps(FieldNames)] :
                "~Emb" \in T => s["~Emb"] \in ChainFieldMaps({"f"})} :
           T \in SUBSET DocTypes}

\* the registries: every class registered, or one of them missing
Registries == {ActionClasses} \cup {ActionClasses \ {c} : c \in ActionClasses}

Permutations2(S) == {p \in [1..Cardinality(S) -> S] : \A x \in S : \E i \in DOMAIN p : p[i] = x}

SetOrders == [documents : Permutations2(DocTypes), fields : Permutations2(FieldNames)]

InitChain ==
    /\ action_chain = ChainResult(FALSE, << >>, "none")
    /\ collection = << >>
    /\ before = << >>
    /\ db_field = "none"
    /\ prepared = NotPrepared
    /\ migrations = << >>
    /\ parents = << >>
    /\ children = << >>
    /\ calls = 0
    /\ yielded = << >>
    /\ stack = << >>
    /\ node_counters = << >>
    /\ ran = << >>
    /\ op = "init"
    /\ arg \in [left_schema : ChainSchemas, right_schema : ChainSchemas,
                classes : Registries, ord : SetOrders]
    /\ raised = "none"
    /\ reason = "none"
    /\ type_key_registry = ImportedRegistry
    /\ other = NoGraph

BuildActionsChain ==
    /\ op = "init"
    /\ LET r == build_actions_chain(arg.left_schema, arg.right_schema,
                                    arg.classes, arg.ord)
       IN  /\ action_chain' = r
           /\ op' = "build_actions_chain"
           /\ raised' = r.raised
           /\ reason' = IF r.raised = "none" THEN "none" ELSE "could_not_reach_schema"
    /\ UNCHANGED <<graphVars, storeVars, ran, arg,
                   type_key_registry, other>>

NextChain == BuildActionsChain

SpecChain == InitChain /\ [][NextChain]_vars

(***************************************************************************)
(* Claims on the action chain                                              *)
(***************************************************************************)
\* C5: build_actions_chain returns a list only if patching the left schema
\* with the returned actions, in list order, gives a schema equal to the
\* right schema; otherwise it raises and returns nothing.
C5_ChainReachesRightSchema ==
    op = "build_actions_chain" =>
        /\ action_chain.returned =>
              patch_all(action_chain.actions, 1, arg.left_schema) = arg.right_schema
        /\ ~action_chain.returned => raised = "ActionError"

\* a chain of three actions or more was returned for two different schemas
C5_Witness ==
    /\ op = "build_actions_chain"
    /\ action_chain.returned
    /\ Len(action_chain.actions) >= 3
    /\ arg.left_schema # arg.right_schema

(***************************************************************************)
(* actions/factory.py: building a chain, one build_object call at a time   *)
(***************************************************************************)
\* the state of a build_actions_chain call: its local variables, where it is
\* (pc: at the head of the for loop, inside list(generator), or at the
\* patching of lines 43-46) and the generator it is consuming, if any
BuildFrame(registry, k, left, document_types, chain, pc, gen) ==
    [registry |-> registry, k |-> k, left_schema |-> left,
     document_types |-> document_types, action_chain |-> chain, pc |-> pc,
     gen |-> gen]

RECURSIVE enter_document_type(_, _, _, _, _, _)
\* the for loops of a generator, entered at the i-th document type: the
\* first document type from there on with something to call build_object
\* for, with the fields to go through (a document action has one call per
\* document type); i beyond the list when the generator is exhausted
enter_document_type(action_cls, left, right, document_types, i, ord) ==
    IF i > Len(document_types) THEN [i |-> i, j |-> 1, all_fields |-> << >>]
    ELSE LET all_fields ==
                IF action_cls \in DocumentActionClasses THEN <<"">>
                ELSE IterateSet(FieldsOf(left, document_types[i])
                                \cup FieldsOf(right, document_types[i]), ord)
         IN  IF all_fields = << >>
             THEN enter_document_type(action_cls, left, right, document_types, i + 1, ord)
             ELSE [i |-> i, j |-> 1, all_fields |-> all_fields]

\* a patch applied to the working schema itself: a field added, changed or
\* removed shows in the caller's schema, whose field dicts the shallow copy
\* of line 29 shares
patch_objects_in_place(action, schema, caller) ==
    LET dt == action.document_type
        result == patch(action, schema)
    IN  [left_schema |-> result,
         caller |-> IF action.cls \in FieldActionClasses /\ dt \in DOMAIN caller
                    THEN [caller EXCEPT ![dt] = result[dt]]
                    ELSE caller]

\* a generator that yields the action without patching its left schema
patch_objects_discarded(action, schema, caller) ==
    [left_schema |-> schema, caller |-> caller]

\* left_schema = patch(action_obj.to_schema_patch(left_schema), left_schema):
\* dictdiffer's patch works on a deep copy of its destination, so the local
\* name is bound to a new schema and the caller's schema stays as it is
patch_objects(action, schema, caller) ==
    [left_schema |-> patch(action, schema), caller |-> caller]

\* build_actions_chain is called: lines 24 to 30
StartBuild ==
    /\ op = "init"
    /\ stack = << >>
    /\ stack' = <<BuildFrame(sorted_registry(arg.classes), 1, arg.left_schema,
                    get_all_document_types(arg.left_schema, arg.right_schema,
                                           arg.ord.documents),
                    << >>, "for", << >>)>>
    /\ before' = [left_schema |-> arg.left_schema, right_schema |-> arg.right_schema]
    /\ ran' = << >>
    /\ op' = "building"
    /\ UNCHANGED <<migrations, parents, children, calls, yielded, node_counters,
                   collection, prepared, db_field, action_chain, arg, raised, reason,
                   type_key_registry, other>>

\* the head of the for loop over the registry with a class left: a class
\* that is neither a document nor a field action is passed over, for the
\* others the generator is created and list() starts to consume it
StartPass ==
    /\ op = "building"
    /\ stack[1].pc = "for"
    /\ stack[1].k <= Len(stack[1].registry)
    /\ LET fr == stack[1]
           action_cls == fr.registry[fr.k]
           pos == enter_document_type(action_cls, fr.left_schema, arg.right_schema,
                                      fr.document_types, 1, arg.ord.fields)
       IN  stack' =
             IF action_cls \notin DocumentActionClasses \cup FieldActionClasses
             THEN <<[fr EXCEPT !.k = @ + 1]>>
             ELSE <<[fr EXCEPT
                        !.pc = IF pos.i > Len(fr.document_types) THEN "patch" ELSE "list",
                        !.gen = <<[i |-> pos.i, j |-> pos.j, all_fields |-> pos.all_fields,
                                   left_schema |-> fr.left_schema,
                                   new_actions |-> << >>]>>]>>
    /\ UNCHANGED <<migrations, parents, children, calls, yielded, node_counters,
                   storeVars, action_chain, ran, op, arg, raised, reason,
                   type_key_registry, other>>

\* one turn of the generator's loop: build_object is called with the
\* generator's left schema; an action it returns patches that schema and is
\* yielded. ran records the call.
BuildObjectCall ==
    /\ op = "building"
    /\ stack[1].pc = "list"
    /\ LET fr == stack[1]
           g == fr.gen[1]
           action_cls == fr.registry[fr.k]
           document_type == fr.document_types[g.i]
           field == g.all_fields[g.j]
           found == build_object_matches(action_cls, document_type, field,
                                         g.left_schema, arg.right_schema)
           action_obj == build_object(action_cls, document_type, field,
                                      g.left_schema, arg.right_schema)
           patched == IF found
                      THEN patch_objects(action_obj, g.left_schema, before.left_schema)
                      ELSE [left_schema |-> g.left_schema, caller |-> before.left_schema]
           pos == IF g.j < Len(g.all_fields)
                  THEN [i |-> g.i, j |-> g.j + 1, all_fields |-> g.all_fields]
                  ELSE enter_document_type(action_cls, patched.left_schema,
                                           arg.right_schema, fr.document_types,
                                           g.i + 1, arg.ord.fields)
       IN  /\ ran' = Append(ran, [cls |-> action_cls, document_type |-> document_type,
                                  field_name |-> field, left_schema |-> g.left_schema,
                                  action |-> IF found THEN <<action_obj>> ELSE << >>])
           /\ before' = [before EXCEPT !.left_schema = patched.caller]
           /\ stack' = <<[fr EXCEPT
                    !.pc = IF pos.i > Len(fr.document_types) THEN "patch" ELSE "list",
                    !.gen = <<[i |-> pos.i, j |-> pos.j, all_fields |-> pos.all_fields,
                               left_schema |-> patched.left_schema,
                               new_actions |-> IF found
                                               THEN Append(g.new_actions, action_obj)
                                               ELSE g.new_actions]>>]>>
    /\ UNCHANGED <<migrations, parents, children, calls, yielded, node_counters,
                   collection, prepared, db_field, action_chain, op, arg, raised, reason,
                   type_key_registry, other>>

\* the generator is exhausted: lines 43 to 46 patch the left schema of
\* build_actions_chain with the new actions, extend the chain and list the
\* document types again
EndPass ==
    /\ op = "building"
    /\ stack[1].pc = "patch"
    /\ LET fr == stack[1]
           new_actions == fr.gen[1].new_actions
           left == patch_all(new_actions, 1, fr.left_schema)
       IN  stack' = <<BuildFrame(fr.registry, fr.k + 1, left,
                        get_all_document_types(left, arg.right_schema, arg.ord.documents),
                        fr.action_chain \o new_actions, "for", << >>)>>
    /\ UNCHANGED <<migrations, parents, children, calls, yielded, node_counters,
                   storeVars, action_chain, ran, op, arg, raised, reason,
                   type_key_registry, other>>

\* the registry is exhausted: lines 48 to 56 compare the schemas and return
\* the chain or raise
FinishBuild ==
    /\ op = "building"
    /\ stack[1].pc = "for"
    /\ stack[1].k > Len(stack[1].registry)
    /\ LET r == IF arg.right_schema # stack[1].left_schema
                THEN ChainResult(FALSE, << >>, "ActionError")
                ELSE ChainResult(TRUE, stack[1].action_chain, "none")
       IN  /\ action_chain' = r
           /\ raised' = r.raised
           /\ reason' = IF r.raised = "none" THEN "none" ELSE "could_not_reach_schema"
    /\ stack' = << >>
    /\ op' = "build_actions_chain"
    /\ UNCHANGED <<migrations, parents, children, calls, yielded, node_counters,
                   storeVars, ran, arg,
                   type_key_registry, other>>

NextBuild == StartBuild \/ StartPass \/ BuildObjectCall \/ EndPass \/ FinishBuild

SpecBuild == InitChain /\ [][NextBuild]_vars

(***************************************************************************)
(* Claims on the order and the schemas of chain building                   *)
(***************************************************************************)
\* C21: in the chain build_actions_chain returns, every action of an Action
\* class with a lower priority value comes before every action of an Action
\* class with a higher priority value.
C21_PriorityOrder ==
    (op = "build_actions_chain" /\ action_chain.returned) =>
        \A i, j \in DOMAIN action_chain.actions :
            priority[action_chain.actions[i].cls] < priority[action_chain.actions[j].cls]
                => i < j

\* a chain with actions of four classes was returned
C21_Witness ==
    /\ op = "build_actions_chain"
    /\ action_chain.returned
    /\ Cardinality({action_chain.actions[i].cls : i \in DOMAIN action_chain.actions}) >= 4

\* the build_object calls made so far that returned an action
AcceptedCalls == {n \in DOMAIN ran : ran[n].action # << >>}

\* C22: among the actions one Action class contributes, every action on an
\* embedded document type comes before every action on a collection document
\* type, and the document types a pass goes through are exactly those of the
\* working left schema or of the right schema.
C22_EmbeddedFirst ==
    /\ op \in {"building", "build_actions_chain"} =>
          \A m, n \in AcceptedCalls :
              (/\ ran[m].cls = ran[n].cls
               /\ ran[m].document_type \in EmbeddedTypes
               /\ ran[n].document_type \notin EmbeddedTypes) => m < n
    /\ op = "building" =>
          /\ Range(stack[1].document_types) =
                DOMAIN stack[1].left_schema \cup DOMAIN arg.right_schema
          /\ Len(stack[1].document_types) = Cardinality(Range(stack[1].document_types))
          /\ stack[1].pc # "for" =>
                LET cls == stack[1].registry[stack[1].k]
                    inspected == {ran[n].document_type :
                                    n \in {m \in DOMAIN ran : ran[m].cls = cls}}
                IN  /\ inspected \subseteq Range(stack[1].document_types)
                    /\ (stack[1].pc = "patch" /\ cls \in DocumentActionClasses)
                            => inspected = Range(stack[1].document_types)

\* one class contributed an action on the embedded type and one on the
\* collection, in a run whose set of document types iterates the collection
\* first
C22_Witness ==
    /\ op = "build_actions_chain"
    /\ action_chain.returned
    /\ arg.ord.documents[1] = "Doc"
    /\ \E m, n \in AcceptedCalls :
        /\ ran[m].cls = "CreateField" /\ ran[n].cls = "CreateField"
        /\ ran[m].document_type \in EmbeddedTypes
        /\ ran[n].document_type \notin EmbeddedTypes

RECURSIVE AcceptedBefore(_)
\* the actions accepted before the n-th build_object call, in order
AcceptedBefore(n) ==
    IF n <= 1 THEN << >> ELSE AcceptedBefore(n - 1) \o ran[n - 1].action

\* C23: at every call of build_object during build_actions_chain the left
\* schema handed to it is the caller's left schema patched, in order, with
\* the actions accepted before the call, in earlier passes and earlier in
\* the same pass.
C23_LeftSchemaAtCall ==
    op \in {"building", "build_actions_chain"} =>
        \A n \in DOMAIN ran :
            ran[n].left_schema = patch_all(AcceptedBefore(n), 1, arg.left_schema)

\* a call that was handed a schema patched by an action of an earlier pass
\* and by an action of its own pass
C23_Witness ==
    /\ op = "building"
    /\ \E n \in DOMAIN ran :
        \E a, b \in {m \in AcceptedCalls : m < n} :
            /\ ran[a].cls # ran[n].cls
            /\ ran[b].cls = ran[n].cls
            /\ ran[n].left_schema # arg.left_schema

\* C24: build_actions_chain never modifies the left schema or the right
\* schema of its caller, at any depth, whether it returns a chain or raises.
C24_CallerSchemasUntouched ==
    op \in {"building", "build_actions_chain"} =>
        before = [left_schema |-> arg.left_schema, right_schema |-> arg.right_schema]

\* the call raised after a field action had patched the schema of a
\* document type that the caller's left schema has
C24_Witness ==
    /\ op = "build_actions_chain"
    /\ raised = "ActionError"
    /\ \E n \in AcceptedCalls :
        /\ ran[n].cls \in FieldActionClasses
        /\ ran[n].document_type \in DOMAIN arg.left_schema

\* C25: two runs of build_actions_chain with equal left schemas, equal right
\* schemas and the same registry return the same actions in the same order:
\* the run made gives what a run with any iteration order of the key sets
\* gives.
C25_Deterministic ==
    op = "build_actions_chain" =>
        \A o \in SetOrders :
            build_actions_chain(arg.left_schema, arg.right_schema, arg.classes, o)
                = action_chain

(***************************************************************************)
(* Field classes                                                           *)
(***************************************************************************)
\* the direct base class of each class convert_type can be handed:
\* UserURLField is a field class defined by the user of the library,
\* Document a class of mongoengine.fields that is not a field class
Parent ==
    [StringField |-> "BaseField", URLField |-> "StringField",
     EmailField |-> "StringField", UserURLField |-> "URLField",
     IntField |-> "BaseField", LongField |-> "BaseField",
     FloatField |-> "BaseField", DecimalField |-> "BaseField",
     BooleanField |-> "BaseField", DateTimeField |-> "BaseField",
     DateField |-> "DateTimeField", ComplexDateTimeField |-> "StringField",
     EmbeddedDocumentField |-> "BaseField", DynamicField |-> "BaseField",
     ComplexBaseField |-> "BaseField", ListField |-> "ComplexBaseField",
     EmbeddedDocumentListField |-> "ListField", SortedListField |-> "ListField",
     DictField |-> "ComplexBaseField", MapField |-> "DictField",
     ReferenceField |-> "BaseField", LazyReferenceField |-> "BaseField",
     CachedReferenceField |-> "BaseField", GenericReferenceField |-> "BaseField",
     ObjectIdField |-> "BaseField", BinaryField |-> "BaseField",
     SequenceField |-> "BaseField", UUIDField |-> "BaseField",
     FileField |-> "BaseField", ImageField |-> "FileField",
     BaseField |-> "object", Document |-> "object"]

FieldClasses == DOMAIN Parent

RECURSIVE mro(_)
\* inspect.getmro(cls), up to BaseField
mro(cls) == IF cls \notin FieldClasses THEN << >> ELSE <<cls>> \o mro(Parent[cls])

\* get_closest_parent(target, classes): the class of classes nearest to
\* target among its proper ancestors, "None" when there is none
get_closest_parent(target, classes) ==
    LET target_mro == mro(target)
        found == {i \in 2..Len(target_mro) : target_mro[i] \in classes}
    IN  IF found = {} THEN "None"
        ELSE target_mro[CHOOSE i \in found : \A j \in found : i <= j]

(***************************************************************************)
(* fields/registry.py: the conversion matrix                               *)
(***************************************************************************)
COMMON_CONVERTERS ==
    [StringField |-> "to_string", IntField |-> "to_int", LongField |-> "to_long",
     FloatField |-> "to_double", DecimalField |-> "to_decimal",
     BooleanField |-> "to_bool", DateTimeField |-> "to_date",
     ListField |-> "item_to_list", EmbeddedDocumentListField |-> "deny"]

OBJECTID_CONVERTERS ==
    [StringField |-> "to_string", EmbeddedDocumentField |-> "deny",
     ListField |-> "item_to_list", EmbeddedDocumentListField |-> "deny",
     ReferenceField |-> "nothing", LazyReferenceField |-> "nothing",
     ObjectIdField |-> "nothing"]

\* {**a, **b}: the entries of b, and those of a that b does not replace
Merge(a, b) ==
    [k \in DOMAIN a \cup DOMAIN b |-> IF k \in DOMAIN b THEN b[k] ELSE a[k]]

\* CONVERTION_MATRIX as the module first writes it
AuthoredMatrix ==
    [StringField |-> Merge(COMMON_CONVERTERS,
        [ObjectIdField |-> "to_object_id", ReferenceField |-> "to_object_id",
         LazyReferenceField |-> "to_object_id", UUIDField |-> "to_uuid"]),
     IntField |-> COMMON_CONVERTERS,
     LongField |-> COMMON_CONVERTERS,
     FloatField |-> COMMON_CONVERTERS,
     DecimalField |-> COMMON_CONVERTERS,
     BooleanField |-> COMMON_CONVERTERS,
     DateTimeField |-> COMMON_CONVERTERS,
     DateField |-> COMMON_CONVERTERS,
     EmbeddedDocumentField |->
        [DictField |-> "nothing", ReferenceField |-> "deny",
         ListField |-> "item_to_list", EmbeddedDocumentListField |-> "item_to_list"],
     DynamicField |-> [BaseField |-> "nothing", UUIDField |-> "to_uuid"],
     ListField |->
        [EmbeddedDocumentField |-> "deny", EmbeddedDocumentListField |-> "deny",
         DictField |-> "extract_from_list"],
     EmbeddedDocumentListField |->
        [EmbeddedDocumentField |-> "nothing", ListField |-> "nothing",
         DictField |-> "extract_from_list"],
     DictField |->
        [EmbeddedDocumentField |-> "deny", ListField |-> "item_to_list",
         EmbeddedDocumentListField |-> "deny"],
     ReferenceField |-> OBJECTID_CONVERTERS,
     LazyReferenceField |-> OBJECTID_CONVERTERS,
     ObjectIdField |-> OBJECTID_CONVERTERS,
     CachedReferenceField |-> << >>,
     BinaryField |-> [UUIDField |-> "to_uuid"],
     SequenceField |-> [BaseField |-> "nothing"],
     BaseField |-> << >>]

\* the rows in the order the dict literal lists them, which is the order the
\* loop visits them in
MatrixKeys ==
    <<"StringField", "IntField", "LongField", "FloatField", "DecimalField",
      "BooleanField", "DateTimeField", "DateField", "EmbeddedDocumentField",
      "DynamicField", "ListField", "EmbeddedDocumentListField", "DictField",
      "ReferenceField", "LazyReferenceField", "ObjectIdField",
      "CachedReferenceField", "BinaryField", "SequenceField", "BaseField">>

\* rows written without copy(): the rows equal to COMMON_CONVERTERS are one
\* dict object, those equal to OBJECTID_CONVERTERS another
RowObject_shared(klass) ==
    CASE AuthoredMatrix[klass] = COMMON_CONVERTERS -> "COMMON_CONVERTERS"
      [] AuthoredMatrix[klass] = OBJECTID_CONVERTERS -> "OBJECTID_CONVERTERS"
      [] OTHER -> klass

\* the dict object that is the row of klass: each row is a dict of its own,
\* a literal or a copy() of COMMON_CONVERTERS or OBJECTID_CONVERTERS
RowObject(klass) == klass

RECURSIVE install_implicit(_, _, _)
\* the loop that adds the implicit entries, from the i-th row on, as the
\* dict object obj sees it: content is what obj holds, and the assignments
\* of a turn of the loop reach obj when obj is the row of that turn's class,
\* each replacing the entry obj had
install_implicit(obj, content, i) ==
    IF i > Len(MatrixKeys) THEN content
    ELSE LET klass == MatrixKeys[i]
         IN  IF RowObject(klass) # obj THEN install_implicit(obj, content, i + 1)
             ELSE install_implicit(obj,
                    Merge(Merge(Merge(Merge(content,
                        [BaseField |-> "nothing"]),
                        [BooleanField |-> "to_bool"]),
                        [SequenceField |-> "drop_field"]),
                        [k \in {klass} |-> "nothing"]),
                    i + 1)

\* CONVERTION_MATRIX after the loop that adds the implicit entries of every
\* row: each class with the content of its row object
CONVERTION_MATRIX ==
    [klass \in DOMAIN AuthoredMatrix |->
        install_implicit(RowObject(klass), AuthoredMatrix[klass], 1)]

\* d.get(key) or e: Python takes e when d has no key or d[key] is empty
RowOf(matrix, cls) ==
    IF cls \in DOMAIN matrix /\ matrix[cls] # << >> THEN cls ELSE "None"

(***************************************************************************)
(* fields/base.py: convert_type                                            *)
(***************************************************************************)
\* convert_type looking up only the exact target class in the row
type_converter_exact_target(from_field_cls, to_field_cls) ==
    LET own == RowOf(CONVERTION_MATRIX, from_field_cls)
        row == IF own # "None" THEN own
               ELSE RowOf(CONVERTION_MATRIX,
                          get_closest_parent(from_field_cls, DOMAIN CONVERTION_MATRIX))
    IN  IF row = "None" THEN "None"
        ELSE IF to_field_cls \in DOMAIN CONVERTION_MATRIX[row]
        THEN CONVERTION_MATRIX[row][to_field_cls]
        ELSE "None"

\* the converter convert_type selects, "None" when it finds no row or no
\* entry
type_converter(from_field_cls, to_field_cls) ==
    LET own == RowOf(CONVERTION_MATRIX, from_field_cls)
        row == IF own # "None" THEN own
               ELSE RowOf(CONVERTION_MATRIX,
                          get_closest_parent(from_field_cls, DOMAIN CONVERTION_MATRIX))
    IN  IF row = "None" THEN "None"
        ELSE LET type_converters == CONVERTION_MATRIX[row]
                 parent == get_closest_parent(to_field_cls, DOMAIN type_converters)
             IN  IF to_field_cls \in DOMAIN type_converters
                 THEN type_converters[to_field_cls]
                 ELSE IF parent # "None" THEN type_converters[parent]
                 ELSE "None"

(***************************************************************************)
(* Converters (fields/converters.py)                                       *)
(***************************************************************************)
\* a stored value: its BSON type and how many lists it is wrapped in
BsonValue(type, depth) == [type |-> type, depth |-> depth]

\* the BSON type each cast converter produces
CastType ==
    [to_string |-> "string", to_int |-> "int", to_long |-> "long",
     to_double |-> "double", to_decimal |-> "decimal", to_bool |-> "bool",
     to_date |-> "date", to_uuid |-> "binData", to_object_id |-> "objectId"]

\* the value a converter writes in place of v
converted(converter, v) ==
    CASE converter \in DOMAIN CastType -> BsonValue(CastType[converter], v.depth)
      [] converter = "item_to_list" -> BsonValue(v.type, v.depth + 1)
      [] converter = "extract_from_list" ->
            IF v.depth > 0 THEN BsonValue(v.type, v.depth - 1) ELSE v
      [] OTHER -> v

\* converter(collection, db_field, from_field_cls, to_field_cls)
run_converter(converter, coll, dbf) ==
    CASE converter = "deny" -> HandlerResult(coll, "MigrationError", "convertion_denied")
      [] converter = "drop_field" ->
            HandlerResult(
                [id \in DOMAIN coll |->
                    [coll[id] EXCEPT !.fields = UnsetField(@, dbf)]],
                "none", "none")
      [] OTHER ->
            HandlerResult(
                [id \in DOMAIN coll |->
                    IF dbf \in DOMAIN coll[id].fields
                    THEN [coll[id] EXCEPT !.fields =
                            SetField(@, dbf, converted(converter, @[dbf]))]
                    ELSE coll[id]],
                "none", "none")

(***************************************************************************)
(* Converting the type of a field                                          *)
(***************************************************************************)
ConvDocuments ==
    {Document(<< >>, << >>)} \cup
    {Document([f \in {"f"} |-> v], << >>) :
        v \in {BsonValue("string", 0), BsonValue("int", 1)}}

InitConv ==
    /\ collection \in [DocIds -> ConvDocuments]
    /\ before = collection
    /\ db_field = "f"
    /\ prepared = NotPrepared
    /\ action_chain = ChainResult(FALSE, << >>, "none")
    /\ migrations = << >>
    /\ parents = << >>
    /\ children = << >>
    /\ calls = 0
    /\ yielded = << >>
    /\ stack = << >>
    /\ node_counters = << >>
    /\ ran = << >>
    /\ op = "init"
    /\ arg \in [from_field_cls : FieldClasses, to_field_cls : FieldClasses]
    /\ raised = "none"
    /\ reason = "none"
    /\ type_key_registry = ImportedRegistry
    /\ other = NoGraph

ConvertType ==
    /\ op = "init"
    /\ op' = "convert_type"
    /\ before' = collection
    /\ LET c == type_converter(arg.from_field_cls, arg.to_field_cls)
           r == run_converter(c, collection, db_field)
       IN  IF c = "None"
           THEN /\ raised' = "MigrationError"
                /\ reason' = "type_converter_not_found"
                /\ ran' = << >>
                /\ collection' = collection
           ELSE /\ ran' = <<[converter |-> c, db_field |-> db_field,
                             from_field_cls |-> arg.from_field_cls,
                             to_field_cls |-> arg.to_field_cls]>>
                /\ collection' = r.collection
                /\ raised' = r.raised
                /\ reason' = r.reason
    /\ UNCHANGED <<graphVars, db_field, prepared, action_chain, arg,
                   type_key_registry, other>>

NextConv == ConvertType

SpecConv == InitConv /\ [][NextConv]_vars

(***************************************************************************)
(* Claims on type conversion                                               *)
(***************************************************************************)
\* the entry of row for to or, failing that, for the nearest ancestor of to
\* that the row has
EntryOrAncestor(row, to) ==
    IF to \in DOMAIN row THEN row[to]
    ELSE IF get_closest_parent(to, DOMAIN row) # "None"
    THEN row[get_closest_parent(to, DOMAIN row)]
    ELSE "None"

\* the converter of the four-level order: exact pair; own row, ancestor of
\* to; row of the nearest ancestor of from, exact to; that row, ancestor of to
FourLevelOrder(from, to) ==
    LET M == CONVERTION_MATRIX
        own == IF from \in DOMAIN M THEN EntryOrAncestor(M[from], to) ELSE "None"
        anc == get_closest_parent(from, DOMAIN M)
    IN  IF own # "None" THEN own
        ELSE IF anc # "None" THEN EntryOrAncestor(M[anc], to)
        ELSE "None"

\* C10: convert_type(from, to) runs exactly the converter of the four-level
\* lookup order (exact pair, own row with the nearest ancestor of to, row of
\* the nearest ancestor of from with exact to, that row with the nearest
\* ancestor of to), and fails without running a converter when no level
\* gives one.
C10_ConverterLookupOrder ==
    op = "convert_type" =>
        LET c == FourLevelOrder(arg.from_field_cls, arg.to_field_cls)
        IN  IF c = "None"
            THEN raised = "MigrationError" /\ ran = << >> /\ collection = before
            ELSE /\ Len(ran) = 1
                 /\ ran[1].converter = c
                 /\ ran[1].from_field_cls = arg.from_field_cls
                 /\ ran[1].to_field_cls = arg.to_field_cls

\* a conversion resolved through an ancestor on both axes, to a converter
\* that is not the universal fallback, which rewrote a document
C10_Witness ==
    /\ op = "convert_type"
    /\ Len(ran) = 1
    /\ ran[1].converter = "item_to_list"
    /\ arg.from_field_cls \notin DOMAIN CONVERTION_MATRIX
    /\ arg.to_field_cls \notin
            DOMAIN CONVERTION_MATRIX[get_closest_parent(arg.from_field_cls,
                                                        DOMAIN CONVERTION_MATRIX)]
    /\ collection # before

\* the targets whose entry the loop installs in the row of T
ImplicitTargets(T) == {"BaseField", "BooleanField", "SequenceField", T}

\* C29: in the built conversion matrix every type T that has a row resolves
\* T to T to the no-op converter, T to BooleanField to the boolean coercion
\* (T other than BooleanField) and T to SequenceField to the drop-field
\* converter (T other than SequenceField), whatever the authors wrote for
\* those pairs; installing these entries in one row changes no entry of
\* another row: every other pair resolves as the authors wrote it.
C29_ImplicitEntries ==
    /\ \A T \in DOMAIN AuthoredMatrix :
            DOMAIN CONVERTION_MATRIX[T] = DOMAIN AuthoredMatrix[T] \cup ImplicitTargets(T)
    /\ (op = "convert_type" /\ arg.from_field_cls \in DOMAIN AuthoredMatrix) =>
          LET T == arg.from_field_cls
              to == arg.to_field_cls
          IN  /\ to = T => (Len(ran) = 1 /\ ran[1].converter = "nothing")
              /\ (to = "BooleanField" /\ T # "BooleanField")
                    => (Len(ran) = 1 /\ ran[1].converter = "to_bool")
              /\ (to = "SequenceField" /\ T # "SequenceField")
                    => (Len(ran) = 1 /\ ran[1].converter = "drop_field")
              /\ (to \in DOMAIN AuthoredMatrix[T] \ ImplicitTargets(T))
                    => (Len(ran) = 1 /\ ran[1].converter = AuthoredMatrix[T][to])

\* a conversion of a type to itself ran the no-op converter where the
\* authors' row had another converter for the pair
C29_Witness ==
    /\ op = "convert_type"
    /\ arg.from_field_cls = "IntField" /\ arg.to_field_cls = "IntField"
    /\ AuthoredMatrix["IntField"]["IntField"] = "to_int"
    /\ Len(ran) = 1 /\ ran[1].converter = "nothing"
    /\ collection = before
    /\ \E id \in DocIds : db_field \in DOMAIN collection[id].fields

\* the scalar field types
ScalarTypes ==
    {"StringField", "IntField", "LongField", "FloatField", "DecimalField",
     "BooleanField", "DateTimeField", "DateField"}

\* C30: a conversion the matrix authors did not declare is denied: in
\* particular convert_type from a scalar type to EmbeddedDocumentField or
\* EmbeddedDocumentListField fails with MigrationError and rewrites no
\* document.
C30_UndeclaredDenied ==
    (/\ op = "convert_type"
     /\ arg.from_field_cls \in ScalarTypes
     /\ arg.to_field_cls \in {"EmbeddedDocumentField", "EmbeddedDocumentListField"})
        => (raised = "MigrationError" /\ collection = before)

(***************************************************************************)
(* fields/base.py: the other parameter handlers                            *)
(***************************************************************************)
\* the choices a list value holds once pairs are reduced to their keys
ChoiceKeys(v) ==
    CASE v = "['x']" -> {"x"}
      [] v = "['x','y']" -> {"x", "y"}
      [] v = "[('x','X')]" -> {"x"}
      [] OTHER -> {}

\* default in choices, for choices a list or a str; no string offered
\* contains another value as a substring
PyIn(default, v) == v \in PyLists /\ default \in ChoiceKeys(v)

\* {db_field: {'$nin': choices}}: the value is not in choices or the field
\* does not exist
nin(m, dbf, choices) == dbf \notin DOMAIN m \/ m[dbf] \notin choices

\* collection.find(filter): a pymongo Cursor. The query is sent when the
\* cursor is first iterated; retrieved counts the documents fetched so far.
find(coll, dbf, choices) ==
    [matching |-> {id \in DOMAIN coll : nin(coll[id].fields, dbf, choices)},
     retrieved |-> 0]

\* update_many({db_field: {'$nin': choices}}, {'$set': {db_field: v}})
update_many_set_nin(coll, dbf, choices, v) ==
    [id \in DOMAIN coll |->
        IF nin(coll[id].fields, dbf, choices)
        THEN [coll[id] EXCEPT !.fields = SetField(@, dbf, v)]
        ELSE coll[id]]

\* change_choices(diff) of a handler whose db_field is dbf
change_choices(coll, dbf, diff) ==
    LET chk == _check_diff(diff, FALSE, TRUE, "Collection")
        choices == ChoiceKeys(diff.new)
    IN  IF chk # "none" THEN HandlerResult(coll, "MigrationError", chk)
        ELSE IF diff.new = "None" THEN HandlerResult(coll, "TypeError", "iter_of_none")
        ELSE IF diff.new \in {"[]", ""}
        THEN HandlerResult(coll, "StopIteration", "next_of_empty")
        ELSE IF diff.error_policy = "raise"
        THEN IF find(coll, dbf, choices).retrieved # 0
             THEN HandlerResult(coll, "MigrationError", "values_not_in_choices")
             ELSE HandlerResult(coll, "none", "none")
        ELSE IF diff.error_policy = "replace"
        THEN IF diff.new \in PyStrings /\ diff.default = "None"
             THEN HandlerResult(coll, "TypeError", "none_in_str")
             ELSE IF ~PyIn(diff.default, diff.new)
             THEN HandlerResult(coll, "MigrationError", "default_not_in_choices")
             ELSE HandlerResult(update_many_set_nin(coll, dbf, choices, diff.default),
                                "none", "none")
        ELSE HandlerResult(coll, "none", "none")

\* a rename that copies the value to the new name and keeps the old one
update_many_rename_keeping(coll, old, new) ==
    [id \in DOMAIN coll |->
        IF old \in DOMAIN coll[id].fields
        THEN [coll[id] EXCEPT !.fields = SetField(@, new, @[old])]
        ELSE coll[id]]

\* a rename without the $exists filter that moves "no value" too: a document
\* without the old name loses the new one
update_many_rename_unfiltered(coll, old, new) ==
    [id \in DOMAIN coll |->
        IF old \in DOMAIN coll[id].fields
        THEN [coll[id] EXCEPT !.fields =
                UnsetField(SetField(@, new, @[old]), old)]
        ELSE [coll[id] EXCEPT !.fields = UnsetField(@, new)]]

\* update_many({old: {'$exists': True}}, {'$rename': {old: new}})
update_many_rename(coll, old, new) ==
    [id \in DOMAIN coll |->
        IF old \in DOMAIN coll[id].fields
        THEN [coll[id] EXCEPT !.fields =
                UnsetField(SetField(@, new, @[old]), old)]
        ELSE coll[id]]

\* change_db_field(diff); the handler's db_field becomes diff.new when it
\* returns
change_db_field(coll, diff) ==
    LET chk == _check_diff(diff, FALSE, FALSE, "str")
    IN  IF chk # "none" THEN HandlerResult(coll, "MigrationError", chk)
        ELSE IF diff.new = "" \/ diff.old = ""
        THEN HandlerResult(coll, "MigrationError", "empty_db_field")
        ELSE HandlerResult(update_many_rename(coll, diff.old, diff.new), "none", "none")

\* change_primary_key(diff): the checks, then change_required(diff)
change_primary_key(coll, dbf, diff) ==
    LET chk == _check_diff(diff, FALSE, FALSE, "bool")
    IN  IF chk # "none" THEN HandlerResult(coll, "MigrationError", chk)
        ELSE change_required(coll, dbf, diff)

\* find_field_class(class_name, field_type): the class of that name, or
\* BaseField when there is none
find_field_class(class_name) ==
    IF class_name \in FieldClasses THEN class_name ELSE "BaseField"

\* change_type_key(diff) of a handler whose db_field is dbf
change_type_key(coll, dbf, diff) ==
    LET chk == _check_diff(diff, FALSE, FALSE, "str")
        old_field_cls == find_field_class(diff.old)
        new_field_cls == find_field_class(diff.new)
        c == type_converter(old_field_cls, new_field_cls)
    IN  IF chk # "none" THEN HandlerResult(coll, "MigrationError", chk)
        ELSE IF new_field_cls = "BaseField"
        THEN HandlerResult(coll, "MigrationError", "class_not_found")
        ELSE IF c = "None"
        THEN HandlerResult(coll, "MigrationError", "type_converter_not_found")
        ELSE run_converter(c, coll, dbf)

\* the parameter names given to change_param: those with a change_NAME
\* method, 'param' (change_param itself) and a name without a method
ParamNames ==
    {"db_field", "required", "unique", "unique_with", "primary_key", "choices",
     "null", "sparse", "type_key", "param", "max_length"}

\* change_param(name, diff): the handler's outcome and its db_field
change_param(coll, dbf, name, diff) ==
    LET r == CASE name = "db_field" -> change_db_field(coll, diff)
               [] name = "required" -> change_required(coll, dbf, diff)
               [] name = "primary_key" -> change_primary_key(coll, dbf, diff)
               [] name = "choices" -> change_choices(coll, dbf, diff)
               [] name = "type_key" -> change_type_key(coll, dbf, diff)
               [] name = "param" -> HandlerResult(coll, "TypeError", "missing_argument_diff")
               [] OTHER -> HandlerResult(coll, "none", "none")
    IN  [collection |-> r.collection, raised |-> r.raised, reason |-> r.reason,
         db_field |-> IF name = "db_field" /\ r.raised = "none" THEN diff.new ELSE dbf]

\* the diffs offered with each parameter name
ParamDiffs(name) ==
    CASE name \in {"required", "primary_key"} -> RequiredDiffs
      [] name = "choices" ->
            {AlterDiff(o, n, d, p) :
                o \in {"None", "UNSET", "['x','y']"},
                n \in PyLists \cup {"None", "UNSET", "True", "str", ""},
                d \in {"None"} \cup Values,
                p \in {"raise", "replace", "ignore"}}
      [] name = "db_field" ->
            {AlterDiff(o, n, "None", "raise") :
                o \in {"f", "g", "", "None", "UNSET", "True"},
                n \in {"f", "g", "", "None", "UNSET", "True"}}
      [] name = "type_key" ->
            {AlterDiff(o, n, "None", "raise") :
                o \in {"StringField", "SequenceField", "EmbeddedDocumentListField",
                       "str", "None", "UNSET"},
                n \in {"StringField", "SequenceField", "EmbeddedDocumentListField",
                       "str", "None", "UNSET"}}
      [] OTHER -> {AlterDiff("False", "True", "None", "raise"),
                   AlterDiff("True", "True", "None", "raise")}

(***************************************************************************)
(* A field handler called through change_param                             *)
(***************************************************************************)
InitParam ==
    /\ collection \in [DocIds -> {Document(m, << >>) : m \in FieldMaps}]
    /\ before = collection
    /\ db_field \in FieldNames
    /\ prepared = NotPrepared
    /\ action_chain = ChainResult(FALSE, << >>, "none")
    /\ migrations = << >>
    /\ parents = << >>
    /\ children = << >>
    /\ calls = 0
    /\ yielded = << >>
    /\ stack = << >>
    /\ node_counters = << >>
    /\ ran = << >>
    /\ op = "init"
    /\ arg = "none"
    /\ raised = "none"
    /\ reason = "none"
    /\ type_key_registry = ImportedRegistry
    /\ other = NoGraph

ChangeParam ==
    /\ op = "init"
    /\ \E name \in ParamNames :
        \E diff \in ParamDiffs(name) :
            LET r == change_param(collection, db_field, name, diff)
            IN  /\ collection' = r.collection
                /\ before' = collection
                /\ db_field' = r.db_field
                /\ op' = "change_param"
                /\ arg' = [name |-> name, diff |-> diff]
                /\ raised' = r.raised
                /\ reason' = r.reason
    /\ UNCHANGED <<graphVars, prepared, action_chain, ran,
                   type_key_registry, other>>

\* the same handler called once more with the same name and diff; ran keeps
\* the store as the first call left it
ChangeParamAgain ==
    /\ op = "change_param"
    /\ \E r \in {change_param(collection, db_field, arg.name, arg.diff)} :
        /\ collection' = r.collection
        /\ db_field' = r.db_field
        /\ raised' = r.raised
        /\ reason' = r.reason
    /\ ran' = <<collection>>
    /\ op' = "change_param_again"
    /\ UNCHANGED <<graphVars, before, prepared, action_chain, arg,
                   type_key_registry, other>>

NextParam == ChangeParam \/ ChangeParamAgain

SpecParam == InitParam /\ [][NextParam]_vars

(***************************************************************************)
(* Claims on change_choices and change_param                               *)
(***************************************************************************)
\* change_choices ran with the diff accepted by its checks and new choices
\* given as a non-empty list
ChoicesCall ==
    /\ op = "change_param"
    /\ arg.name = "choices"
    /\ arg.diff.new \in PyLists \ {"[]"}
    /\ _check_diff(arg.diff, FALSE, TRUE, "Collection") = "none"

\* the documents that held, before the call, a value for the field that is
\* not among the new choices
WrongValued ==
    {id \in DocIds : /\ db_field \in DOMAIN before[id].fields
                     /\ before[id].fields[db_field] \notin ChoiceKeys(arg.diff.new)}

\* C11: under the strict policy ('raise'), change_choices fails with
\* MigrationError whenever some document has a value for the field that is
\* not among the new choices, and then modifies no document.
C11_StrictChoicesFail ==
    (ChoicesCall /\ arg.diff.error_policy = "raise" /\ WrongValued # {})
        => (raised = "MigrationError" /\ collection = before)

\* C12: under the replace policy, with the default among the new choices,
\* change_choices writes the default on exactly the documents whose value is
\* not among the new choices and leaves every other document unchanged; with
\* the default not among the new choices it fails with MigrationError and
\* modifies no document.
C12_ReplaceChoices ==
    (ChoicesCall /\ arg.diff.error_policy = "replace")
        => IF arg.diff.default \in ChoiceKeys(arg.diff.new)
           THEN /\ raised = "none"
                /\ \A id \in DocIds :
                    IF id \in WrongValued
                    THEN /\ collection[id].fields =
                                SetField(before[id].fields, db_field, arg.diff.default)
                         /\ collection[id].emb = before[id].emb
                    ELSE collection[id] = before[id]
           ELSE raised = "MigrationError" /\ collection = before

\* C16: every failure of a handler reached through change_param is a
\* MigrationError.
C16_OnlyMigrationError ==
    op = "change_param" => raised \in {"none", "MigrationError"}

(***************************************************************************)
(* Claims on change_db_field, repeated handlers and rejected diffs         *)
(***************************************************************************)
\* change_db_field ran through change_param
RenameCall == op = "change_param" /\ arg.name = "db_field"

\* the rename took place: every document that had the old name holds its
\* value under the new name and has the old name no more, every other
\* document is as it was
RenameDone ==
    /\ raised = "none"
    /\ \A id \in DocIds :
        IF arg.diff.old \in DOMAIN before[id].fields
        THEN /\ arg.diff.old \notin DOMAIN collection[id].fields
             /\ arg.diff.new \in DOMAIN collection[id].fields
             /\ collection[id].fields[arg.diff.new] = before[id].fields[arg.diff.old]
             /\ collection[id].emb = before[id].emb
        ELSE collection[id] = before[id]

\* an empty name is refused and nothing is written
EmptyNameRefused ==
    (RenameCall /\ (arg.diff.old = "" \/ arg.diff.new = ""))
        => (raised = "MigrationError" /\ collection = before)

\* C26 as stated: change_db_field with non-empty old and new names moves the
\* value stored under the old name to the new name on every document that has
\* the old name, leaving no document with the old name and every other
\* document unchanged; with an empty old or new name it fails with
\* MigrationError and modifies no document.
C26_RenameMoves ==
    /\ (RenameCall /\ arg.diff.old \in FieldNames /\ arg.diff.new \in FieldNames)
            => RenameDone
    /\ EmptyNameRefused

\* C26, amended: change_db_field with non-empty and different old and new
\* names moves the value stored under the old name to the new name on every
\* document that has the old name, leaving no document with the old name and
\* every other document unchanged; with an empty old or new name, or with old
\* and new names equal, it fails with MigrationError and modifies no document.
C26_RenameMovesDistinct ==
    /\ (RenameCall /\ arg.diff.old \in FieldNames /\ arg.diff.new \in FieldNames
            /\ arg.diff.old # arg.diff.new)
            => RenameDone
    /\ (RenameCall /\ arg.diff.old = arg.diff.new)
            => (raised = "MigrationError" /\ collection = before)
    /\ EmptyNameRefused

\* a rename ran on a collection where one document held both names, with
\* different values, and another did not have the old name
C26_Witness ==
    /\ RenameCall
    /\ raised = "none"
    /\ arg.diff.old = "f" /\ arg.diff.new = "g"
    /\ \E i, j \in DocIds :
        /\ DOMAIN before[i].fields = {"f", "g"}
        /\ before[i].fields["f"] = "x" /\ before[i].fields["g"] = "y"
        /\ collection[i].fields["g"] = "x"
        /\ DOMAIN before[j].fields = {"g"}

\* the handlers re-running is claimed safe for: change_db_field with any
\* diff, change_required from not required to required with a default
RepeatedCall ==
    /\ op = "change_param_again"
    /\ \/ arg.name = "db_field"
       \/ /\ arg.name = "required"
          /\ arg.diff.old = "False" /\ arg.diff.new = "True"
          /\ arg.diff.default # "None"

\* C27: executing change_db_field twice with the same diff, or
\* change_required (not required to required, with a default) twice with the
\* same diff, leaves the store in the state one execution leaves it in.
C27_RerunIsSafe ==
    RepeatedCall => collection = ran[1]

\* a rename and a backfill that each changed the store were run again
C27_Witness ==
    /\ RepeatedCall
    /\ raised = "none"
    /\ ran[1] # before
    /\ arg.name = "db_field"
    /\ \E i, j \in DocIds :
        /\ arg.diff.old \in DOMAIN before[i].fields
        /\ arg.diff.old \notin DOMAIN before[j].fields
        /\ arg.diff.new \in DOMAIN before[j].fields

\* the handlers that check their diff, and the type each checks for
CheckedParams == {"db_field", "required", "primary_key", "choices", "type_key"}

ParamType(name) ==
    CASE name \in {"required", "primary_key"} -> "bool"
      [] name \in {"db_field", "type_key"} -> "str"
      [] OTHER -> "Collection"

\* the diffs the claim says are rejected
RejectedDiff(name, diff) ==
    \/ diff.old = diff.new
    \/ diff.old = "UNSET" \/ diff.new = "UNSET"
    \/ \E v \in {diff.old, diff.new} :
            v \notin {"None", "UNSET"} /\ ~isinstance(v, ParamType(name))
    \/ /\ name = "required"
       /\ diff.old # "True" /\ diff.new = "True"
       /\ diff.default = "None"

\* C28: change_db_field, change_required, change_primary_key, change_choices
\* and change_type_key each reject with MigrationError, before any store
\* modification, a diff with equal old and new values, a diff with UNSET as
\* old or new value, a diff whose non-null value is not of the parameter's
\* type and, for change_required towards required, a diff without a default.
C28_BadDiffsRejected ==
    (op = "change_param" /\ arg.name \in CheckedParams
        /\ RejectedDiff(arg.name, arg.diff))
        => (raised = "MigrationError" /\ collection = before)

\* a diff with a value of the wrong type was refused where the handler would
\* otherwise have written to a document
C28_Witness ==
    /\ op = "change_param" /\ arg.name = "required"
    /\ arg.diff.old = "str" /\ arg.diff.new = "True" /\ arg.diff.default = "x"
    /\ reason = "wrong_type"
    /\ \E id \in DocIds : db_field \notin DOMAIN collection[id].fields

(***************************************************************************)
(* Further claims on the migrations graph                                  *)
(***************************************************************************)
\* every entry of the lists is an object of the graph, and no list names a
\* migration twice
NoStaleNoDouble(adj) ==
    \A n \in GraphNames :
        \A i \in DOMAIN adj[n] :
            /\ adj[n][i] \in Range(migrations)
            /\ \A j \in DOMAIN adj[n] : adj[n][j].name = adj[n][i].name => j = i

\* the lists hold the edges that the migrations of the graph declare
AdjacencyIs(R) ==
    \A n \in GraphNames :
        /\ NamesOf(parents[n]) = {p \in GraphNames : <<p, n>> \in R}
        /\ NamesOf(children[n]) = {c \in GraphNames : <<n, c>> \in R}

\* C13: once add() was called for a name the graph already had, the graph is
\* as if only the later migration had been added: the lists hold the edges
\* of the migrations now in the graph, no replaced object and no edge twice.
C13_ReAddReplaces ==
    ~DistinctNames =>
        /\ NoStaleNoDouble(parents)
        /\ NoStaleNoDouble(children)
        /\ AdjacencyIs(ProperEdges)

\* C14: verify() raises MigrationError for every graph with a directed
\* dependency cycle through two or more migrations (stated for graphs built
\* from pairwise distinct names).
C14_VerifyRejectsCycles ==
    (op = "verify" /\ DistinctNames /\ \E n \in GraphNames : OnCycle(n, ProperEdges))
        => raised = "MigrationError"

\* some migration names a dependency that is not another migration of the
\* graph
UnknownDependency ==
    \E i \in DOMAIN migrations :
        \E d \in Range(migrations[i].dependencies) :
            d \notin GraphNames \ {migrations[i].name}

\* C15: in every graph state reached by add() calls, verify() raises
\* MigrationError whenever some migration declares a dependency that is not
\* the name of another migration in the graph, itself included.
C15_VerifyRejectsUnknownDependency ==
    (op = "verify" /\ UnknownDependency) => raised = "MigrationError"

\* C18: on every graph state reached by add() calls whose declared
\* dependencies have no directed cycle, a traversal from initial or from
\* last raises no closed-cycle error.
C18_NoFalseCycleError ==
    (op \in {"iter", "reversed"} /\ Acyclic(DeclaredEdges))
        => reason # "closed_cycle"

\* C20: for migrations with pairwise distinct names, in whatever order they
\* were added, the parents of m are exactly the added migrations that
\* m.dependencies names, its children exactly the added migrations that name
\* m, and X is a parent of Y if and only if Y is a child of X.
C20_AdjacencyOrderIndependent ==
    DistinctNames =>
        /\ AdjacencyIs(DeclaredEdges)
        /\ \A x, y \in GraphNames :
              MigrationByName(migrations, x) \in Range(parents[y])
                  <=> MigrationByName(migrations, y) \in Range(children[x])

(***************************************************************************)
(* graph.py: a traversal, one generator step at a time                     *)
(***************************************************************************)
\* a walk_down / walk_up call on the stack: its from_node and how far its
\* loop over the adjacent migrations has come (0: the call has not started)
Frame(node, i) == [node |-> node, i |-> i]

\* the walk in progress: the calls on the stack, the shared _node_counters,
\* the objects yielded so far and whether the walk has raised
Walk(frames, counters, out, err) ==
    [stack |-> frames, counters |-> counters, out |-> out, err |-> err]

\* walk_step that keeps a call whose node still has unseen parents on the
\* stack, without counting the visit
walk_step_waiting(par, chi, down, only, w) ==
    LET top   == w.stack[Len(w.stack)]
        rest  == SubSeq(w.stack, 1, Len(w.stack) - 1)
        n     == top.node.name
        list  == IF down THEN chi[n] ELSE par[n]
        cnt   == decrement(w.counters, n,
                           first_counter(IF down THEN par ELSE chi, n))
        shown == IF down THEN ~(top.node.applied /\ only)
                 ELSE top.node.applied \/ ~only
    IN  IF top.i = 0
        THEN IF cnt[n] > 0 THEN w
             ELSE IF cnt[n] < 0
             THEN Walk(<< >>, cnt, w.out, TRUE)
             ELSE Walk(Append(rest, Frame(top.node, 1)), cnt,
                       IF shown THEN Append(w.out, top.node) ELSE w.out, FALSE)
        ELSE IF top.i <= Len(list)
        THEN Walk(rest \o <<Frame(top.node, top.i + 1), Frame(list[top.i], 0)>>,
                  w.counters, w.out, FALSE)
        ELSE Walk(rest, w.counters, w.out, FALSE)

\* one step of the innermost call of a walk: start the call (count the
\* visit; return, raise, or yield and enter the loop), call walk_down /
\* walk_up for the next adjacent migration, or return at the end of the loop
walk_step(par, chi, down, only, w) ==
    LET top   == w.stack[Len(w.stack)]
        rest  == SubSeq(w.stack, 1, Len(w.stack) - 1)
        n     == top.node.name
        list  == IF down THEN chi[n] ELSE par[n]
        cnt   == decrement(w.counters, n,
                           first_counter(IF down THEN par ELSE chi, n))
        shown == IF down THEN ~(top.node.applied /\ only)
                 ELSE top.node.applied \/ ~only
    IN  IF top.i = 0
        THEN IF cnt[n] > 0 THEN Walk(rest, cnt, w.out, FALSE)
             ELSE IF cnt[n] < 0
             THEN Walk(<< >>, cnt, w.out, TRUE)
             ELSE Walk(Append(rest, Frame(top.node, 1)), cnt,
                       IF shown THEN Append(w.out, top.node) ELSE w.out, FALSE)
        ELSE IF top.i <= Len(list)
        THEN Walk(rest \o <<Frame(top.node, top.i + 1), Frame(list[top.i], 0)>>,
                  w.counters, w.out, FALSE)
        ELSE Walk(rest, w.counters, w.out, FALSE)

\* add() on a graph that no traversal is walking
AddIdle == stack = << >> /\ Add

\* gen = g.walk_down(from_node, unapplied_only) for a migration of the graph
StartWalkDown ==
    /\ stack = << >>
    /\ \E i \in DOMAIN migrations, unapplied_only \in BOOLEAN :
        /\ stack' = <<Frame(migrations[i], 0)>>
        /\ arg' = [from_node |-> migrations[i], only |-> unapplied_only]
    /\ node_counters' = << >>
    /\ yielded' = << >>
    /\ op' = "walk_down"
    /\ raised' = "none"
    /\ reason' = "none"
    /\ UNCHANGED <<migrations, parents, children, calls, storeVars, action_chain, ran,
                   type_key_registry, other>>

\* gen = g.walk_up(from_node, applied_only) for a migration of the graph
StartWalkUp ==
    /\ stack = << >>
    /\ \E i \in DOMAIN migrations, applied_only \in BOOLEAN :
        /\ stack' = <<Frame(migrations[i], 0)>>
        /\ arg' = [from_node |-> migrations[i], only |-> applied_only]
    /\ node_counters' = << >>
    /\ yielded' = << >>
    /\ op' = "walk_up"
    /\ raised' = "none"
    /\ reason' = "none"
    /\ UNCHANGED <<migrations, parents, children, calls, storeVars, action_chain, ran,
                   type_key_registry, other>>

\* the consumer of the generator lets it run its next step
WalkStep ==
    /\ stack # << >>
    /\ LET w == walk_step(parents, children, op = "walk_down", arg.only,
                          Walk(stack, node_counters, yielded, FALSE))
       IN  /\ stack' = w.stack
           /\ node_counters' = w.counters
           /\ yielded' = w.out
           /\ raised' = IF w.err THEN "MigrationError" ELSE "none"
           /\ reason' = IF w.err THEN "closed_cycle" ELSE "none"
    /\ UNCHANGED <<migrations, parents, children, calls, storeVars, action_chain,
                   ran, op, arg,
                   type_key_registry, other>>

NextWalk == AddIdle \/ StartWalkDown \/ StartWalkUp \/ WalkStep

\* a generator that was started is run until it is exhausted or raises
SpecWalk == InitGraph /\ [][NextWalk]_vars /\ WF_vars(WalkStep)

(***************************************************************************)
(* Claims on the traversal steps                                           *)
(***************************************************************************)
\* C17: walk_down and walk_up terminate on every graph and from every start
\* node, graphs with directed cycles included: a traversal that was started
\* finishes yielding or raises after finitely many steps.
C17_WalksTerminate == (stack # << >>) ~> (stack = << >>)

\* a traversal started at a migration on a directed cycle, not the initial
\* one, has ended by raising after it yielded two migrations or more
C17_Witness ==
    /\ op \in {"walk_down", "walk_up"}
    /\ stack = << >>
    /\ OnCycle(arg.from_node.name, ProperEdges)
    /\ raised = "MigrationError"
    /\ Len(yielded) >= 2

(***************************************************************************)
(* Traversals of a graph with applied migrations                           *)
(***************************************************************************)
\* list(g.walk_down(g.initial, unapplied_only))
list_walk_down(migs, par, chi, unapplied_only) ==
    IF initial(migs, par) = "None" THEN WalkStart
    ELSE walk_down(par, chi, MigrationByName(migs, initial(migs, par)),
                   unapplied_only, WalkStart)

\* list(g.walk_up(g.last, applied_only))
list_walk_up(migs, par, chi, applied_only) ==
    IF last(migs, chi) = "None" THEN WalkStart
    ELSE walk_up(par, chi, MigrationByName(migs, last(migs, chi)),
                 applied_only, WalkStart)

\* add() of a migration loaded with its applied flag from the database
AddLoaded ==
    \E m \in MigrationPool, applied \in BOOLEAN :
        /\ calls < MaxAdds
        /\ LET g == add(migrations, parents, children, [m EXCEPT !.applied = applied])
           IN  /\ migrations' = g.migrations
               /\ parents' = g.parents
               /\ children' = g.children
        /\ calls' = calls + 1
        /\ op' = "add"
        /\ yielded' = << >>
        /\ raised' = "none"
        /\ reason' = "none"
        /\ UNCHANGED <<storeVars, walkVars, action_chain, ran, arg,
                   type_key_registry, other>>

ListWalkDown ==
    \E unapplied_only \in BOOLEAN :
        LET r == list_walk_down(migrations, parents, children, unapplied_only)
        IN  /\ op' = "list_walk_down"
            /\ arg' = [only |-> unapplied_only]
            /\ yielded' = r.out
            /\ raised' = IF r.err THEN "MigrationError" ELSE "none"
            /\ reason' = IF r.err THEN "closed_cycle" ELSE "none"
            /\ UNCHANGED <<migrations, parents, children, calls,
                   type_key_registry, other>>
            /\ UNCHANGED <<storeVars, walkVars, action_chain, ran,
                   type_key_registry, other>>

ListWalkUp ==
    \E applied_only \in BOOLEAN :
        LET r == list_walk_up(migrations, parents, children, applied_only)
        IN  /\ op' = "list_walk_up"
            /\ arg' = [only |-> applied_only]
            /\ yielded' = r.out
            /\ raised' = IF r.err THEN "MigrationError" ELSE "none"
            /\ reason' = IF r.err THEN "closed_cycle" ELSE "none"
            /\ UNCHANGED <<migrations, parents, children, calls,
                   type_key_registry, other>>
            /\ UNCHANGED <<storeVars, walkVars, action_chain, ran,
                   type_key_registry, other>>

NextFilter == AddLoaded \/ ListWalkDown \/ ListWalkUp

SpecFilter == InitGraph /\ [][NextFilter]_vars

(***************************************************************************)
(* Claims on the applied filter                                            *)
(***************************************************************************)
\* C19: for any graph and any applied flags, walk_down(initial,
\* unapplied_only=True) yields what the unfiltered walk yields with the
\* applied migrations removed, and walk_up(last, applied_only=True) what the
\* unfiltered walk_up yields with the unapplied migrations removed; the
\* filter changes neither the order nor whether the walk raises.
C19_FilterKeepsOrder ==
    /\ (op = "list_walk_down" /\ arg.only) =>
          LET all == list_walk_down(migrations, parents, children, FALSE)
          IN  /\ yielded = SelectSeq(all.out, LAMBDA m : ~m.applied)
              /\ (raised = "MigrationError") = all.err
    /\ (op = "list_walk_up" /\ arg.only) =>
          LET all == list_walk_up(migrations, parents, children, FALSE)
          IN  /\ yielded = SelectSeq(all.out, LAMBDA m : m.applied)
              /\ (raised = "MigrationError") = all.err

\* a filtered walk_down yielded an unapplied migration that lies below an
\* applied one, and left the applied one out
C19_Witness ==
    /\ op = "list_walk_down" /\ arg.only
    /\ raised = "none"
    /\ DistinctNames
    /\ Len(migrations) = 4
    /\ Len(yielded) >= 2
    /\ \E i \in DOMAIN yielded :
        \E p \in Range(parents[yielded[i].name]) :
            p.applied /\ p \notin Range(yielded)

(***************************************************************************)
(* Registering field classes and handlers                                  *)
(***************************************************************************)
AddTypeKey ==
    /\ \E c \in MongoengineFields \cup UserFields :
        /\ type_key_registry' = add_type_key(type_key_registry, PyClass(c))
        /\ arg' = [field_cls |-> PyClass(c)]
    /\ op' = "add_type_key"
    /\ raised' = "none"
    /\ reason' = "none"
    /\ UNCHANGED <<graphVars, storeVars, action_chain, ran, other>>

\* add_field_handler with a field class, registered or not, or with the
\* name of one
AddFieldHandler ==
    /\ \E c \in MongoengineFields \cup UserFields, h \in HandlerClasses :
        \E f \in {PyClass(c), PyStr(c)} :
            \E r \in {add_field_handler(type_key_registry, f, h)} :
                /\ type_key_registry' = r.registry
                /\ raised' = r.raised
                /\ reason' = r.reason
                /\ arg' = [field_cls |-> f, handler_cls |-> h]
    /\ op' = "add_field_handler"
    /\ UNCHANGED <<graphVars, storeVars, action_chain, ran, other>>

NextRegistry == AddTypeKey \/ AddFieldHandler

SpecRegistry == InitGraph /\ [][NextRegistry]_vars

(***************************************************************************)
(* Claims on the type key registry                                         *)
(***************************************************************************)
\* the class handed to add_field_handler was registered with add_type_key
Registered(f) ==
    /\ f.type = "class"
    /\ f.name \in DOMAIN type_key_registry
    /\ type_key_registry[f.name].field_cls = f

\* C31: add_field_handler(F, H) for a field class F registered with
\* add_type_key succeeds and leaves the registry item of F with handler H;
\* ValueError is raised only when F is not in the registry.
C31_AddFieldHandler ==
    op = "add_field_handler" =>
        /\ Registered(arg.field_cls) =>
              /\ raised = "none"
              /\ type_key_registry[arg.field_cls.name].field_handler_cls = arg.handler_cls
        /\ raised = "ValueError" => ~Registered(arg.field_cls)

(***************************************************************************)
(* graph.py: comparing two graphs                                          *)
(***************************************************************************)
\* self.__eq__(other) for two different graph objects: every migration of
\* self equals what other._migrations.get(name) gives, which is None when
\* other has no migration of that name
__eq__(self_migrations, other_migrations) ==
    \A i \in DOMAIN self_migrations :
        LET name == self_migrations[i].name
        IN  /\ name \in NamesOf(other_migrations)
            /\ self_migrations[i] = MigrationByName(other_migrations, name)

\* add() on the second graph; calls counts the add() calls on both graphs
AddOther ==
    /\ calls < MaxAdds
    /\ \E m \in MigrationPool :
        other' = add(other.migrations, other.parents, other.children, m)
    /\ calls' = calls + 1
    /\ op' = "add"
    /\ raised' = "none"
    /\ reason' = "none"
    /\ UNCHANGED <<migrations, parents, children, yielded, walkVars, storeVars,
                   action_chain, ran, arg, type_key_registry>>

\* g1 == g2 and g2 == g1 are evaluated, g1 the graph of the model's
\* variables and g2 the second graph
Eq ==
    /\ op' = "eq"
    /\ arg' = [g1_eq_g2 |-> __eq__(migrations, other.migrations),
               g2_eq_g1 |-> __eq__(other.migrations, migrations)]
    /\ raised' = "none"
    /\ reason' = "none"
    /\ UNCHANGED <<graphVars, storeVars, action_chain, ran, type_key_registry, other>>

NextEq == Add \/ AddOther \/ Eq

SpecEq == InitGraph /\ [][NextEq]_vars

(***************************************************************************)
(* Claims on graph equality                                                *)
(***************************************************************************)
\* C32: equality of graphs is symmetric: for two graphs reached by add()
\* calls, g1 == g2 holds if and only if g2 == g1 holds; an empty graph is
\* not equal to a non-empty one in either direction.
C32_EqSymmetric ==
    op = "eq" =>
        /\ arg.g1_eq_g2 = arg.g2_eq_g1
        /\ ((migrations = << >>) # (other.migrations = << >>))
                => (~arg.g1_eq_g2 /\ ~arg.g2_eq_g1)

====
